---------------------------- MODULE Spec2Model ----------------------------
(***************************************************************************)
(* A model of quick-xml's DOM builder (reader/dom.rs), of the DOM entry    *)
(* points Element::from_str and Node::from_str, and of the asynchronous    *)
(* event reader (reader/async_reader.rs).                                  *)
(*                                                                         *)
(* Bytes are modelled by one-character strings:                            *)
(*   "a" a letter, "s" a space, "t" a tab, "n" a line feed,                *)
(*   "r" a carriage return, "x" a byte that is not valid UTF-8.            *)
(* A byte string is a sequence of them.  An Option is a sequence of        *)
(* length 0 (None) or 1 (Some).                                            *)
(***************************************************************************)
EXTENDS Integers, Sequences, FiniteSets, TLC

VARIABLES
    parents,      \* DomBuilder.parents: the stack of open elements
    text,         \* DomBuilder.text: Option of the merged pending text
    spaces_only,  \* DomBuilder.spaces_only
    res,          \* what the last call of DomBuilder::feed returned
    fed,          \* history: the events given to feed, in order
    doc,          \* from_str: the tokens of the document read so far
    opened,       \* from_str: the reader's stack of the names of the open elements
    pc,           \* from_str: where the call stands
    event,        \* from_str: the local variable event
    root,         \* from_str: the local variable root, an Option
    out,          \* from_str: what the call returned
    input,        \* async reader: the bytes of the byte source
    config,       \* async reader: the flags of Reader the code reads
    position,     \* async reader: the number of bytes consumed
    tag_state,    \* async reader: Reader.tag_state
    opened_starts,\* async reader: the names of the open elements
    fetches,      \* async reader: the number of calls of the byte source so far
    emitted,      \* async reader: what read_event_into_async returned, call by call
    map,          \* ElementMapAccess: the fields of the access the code reads
    keys,         \* history: the keys next_key_seed yielded, in order
    values,       \* history: the values next_value_seed delivered, in order
    nodes,        \* history: the children of the element the access was made of
    answer,       \* ElementMapAccess: what the last call returned
    de,           \* EnumAccess: the events the streaming deserializer has ahead
    enum_access,  \* EnumAccess: the element of the DOM that is the enum access
    variant,      \* EnumAccess: what variant_seed returned
    ns_state,     \* the NsReader at work, if any: the document read so far, the
                  \* reader it wraps, its resolver, pending_pop, what it returned
    skip_state,   \* the reader that read_to_end is called of, if any: the
                  \* document, the reader and its calls
    ent_state,    \* the entity-aware reader at work, if any: the entities, the
                  \* main parser, the stack of sub-readers, what was pulled
    esc_state,    \* the call of escape or unescape, if any: the string given
                  \* and what they returned
    cdata_state,  \* the CDataIterator, if any: the string given, its fields and
                  \* what it yielded
    val_state,    \* the CommentValidationIter or TextValidationIter, if any: the
                  \* string given, its fields and what it reported
    bytes_start   \* the BytesStart, if any: its fields and what was done to it

bvars == <<parents, text, spaces_only, res, fed>>
fvars == <<doc, opened, pc, event, root, out>>
avars == <<input, config, position, tag_state, opened_starts, fetches, emitted>>
dvars == <<map, keys, values, nodes, answer>>
evars == <<de, enum_access, variant>>
nvars == <<ns_state>>
svars == <<skip_state>>
gvars == <<ent_state>>
cvars == <<esc_state>>
ivars == <<cdata_state>>
wvars == <<val_state>>
tvars == <<bytes_start>>
rvars == <<nvars, svars, gvars, cvars, ivars, wvars, tvars>>
ovars == <<bvars, fvars, avars, dvars, evars>>
vars == <<ovars, rvars>>
\* All the variables but those of one group.
but_nvars == <<ovars, svars, gvars, cvars, ivars, wvars, tvars>>
but_svars == <<ovars, nvars, gvars, cvars, ivars, wvars, tvars>>
but_gvars == <<ovars, nvars, svars, cvars, ivars, wvars, tvars>>
but_cvars == <<ovars, nvars, svars, gvars, ivars, wvars, tvars>>
but_ivars == <<ovars, nvars, svars, gvars, cvars, wvars, tvars>>
but_wvars == <<ovars, nvars, svars, gvars, cvars, ivars, tvars>>
but_tvars == <<ovars, nvars, svars, gvars, cvars, ivars, wvars>>

\* NsReader: the tags and texts of the document read so far
ns_doc == ns_state[1].doc
\* NsReader: the state of the reader it wraps
ns_reader == ns_state[1].reader
\* NsReader: its NamespaceResolver
resolver == ns_state[1].resolver
\* NsReader: the scope of the last event is still to be left
pending_pop == ns_state[1].pending_pop
\* history: what read_resolved_event returned, call by call
resolved == ns_state[1].resolved
\* read_to_end: the tags and texts of the document
skip_doc == skip_state[1].doc
\* read_to_end: the state of the reader
skip_reader == skip_state[1].reader
\* history: the calls of the reader and what they returned
skip_log == skip_state[1].log
\* entity-aware reader: the replacement text of each entity
ent_table == ent_state[1].table
\* entity-aware reader: the parser of the main document
ent_main == ent_state[1].main
\* entity-aware reader: the stack of sub-readers
ent_stack == ent_state[1].stack
\* history: what the pulls returned, in order
ent_out == ent_state[1].out
\* escape, unescape: the string given
esc_in == esc_state[1].given
\* escape, unescape: which of them were applied
esc_pc == esc_state[1].pc
\* escape: what it returned
esc_text == esc_state[1].text
\* unescape: what it returned
esc_out == esc_state[1].out
\* BytesCData::escaped: the string given
cdata_in == cdata_state[1].given
\* CDataIterator.unprocessed
unprocessed == cdata_state[1].unprocessed
\* CDataIterator.finished
finished == cdata_state[1].finished
\* history: what CDataIterator::next yielded, in order
sections == cdata_state[1].sections

(***************************************************************************)
(* Bounds                                                                  *)
(***************************************************************************)
\* The number of events one run gives to DomBuilder::feed.
MaxFeeds == 5
\* The number of tokens (tags, texts, comments, ...) of a document.
MaxDoc == 4
\* The number of bytes of the input of the async reader.
MaxInput == 4
\* The number of calls of read_event_into_async in one run.
MaxReads == 4

(***************************************************************************)
(* Values                                                                  *)
(***************************************************************************)
None == <<>>
Some(v) == <<v>>

Last(s) == s[Len(s)]
Front(s) == SubSeq(s, 1, Len(s) - 1)

\* Event: the kind, the tag name (Start, End, Empty) and the bytes (Text, CData).
Ev(k, n, s) == [k |-> k, n |-> n, s |-> s]

TagKinds == {"Start", "End", "Empty"}
TextKinds == {"Text", "CData"}

EvEof == Ev("Eof", "", <<>>)
EvNone == Ev("", "", <<>>)
EvComment == Ev("Comment", "", <<>>)
EvPI == Ev("PI", "", <<>>)
EvGeneralRef == Ev("GeneralRef", "", <<>>)
EvDecl == Ev("Decl", "", <<>>)
EvDocType == Ev("DocType", "", <<>>)

\* The names and the contents the events of a run are drawn from.
Names == {"a", "b"}
TextBytes == {<<"a">>, <<"s">>, <<"r", "n">>, <<"x">>}
CDataBytes == {<<"a">>, <<"s">>}

\* The events a caller of feed draws from.
StartEvents == {Ev("Start", n, <<>>) : n \in Names}
EvEnd == Ev("End", "a", <<>>)
EvEmpty == Ev("Empty", "a", <<>>)
TextEvents == {Ev("Text", "", s) : s \in TextBytes}
CDataEvents == {Ev("CData", "", s) : s \in CDataBytes}

\* Element { tag, children } and Node::{Element, Text, Space}, in one record shape.
Element(tag, children) == [tag |-> tag, children |-> children]
NodeElement(e) == [k |-> "Element", tag |-> e.tag, children |-> e.children, s |-> <<>>]
NodeText(s) == [k |-> "Text", tag |-> "", children |-> <<>>, s |-> s]
NodeSpace(s) == [k |-> "Space", tag |-> "", children |-> <<>>, s |-> s]
NoElement == Element("", <<>>)

\* impl From<BytesStart> for Element
ElementFrom(tag) == Element(tag, <<>>)

\* FeedResult, and the two ways feed ends without one: Err(EncodingError) and a panic.
Result(k, el, s, next) == [k |-> k, el |-> el, s |-> s, next |-> next]
NeedData == Result("NeedData", NoElement, <<>>, EvNone)
NoData == Result("NoData", NoElement, <<>>, EvNone)
FeedElement(e) == Result("Element", e, <<>>, EvNone)
FeedText(s, next) == Result("Text", NoElement, s, next)
FeedSpace(s, next) == Result("Space", NoElement, s, next)
FeedErr == Result("Err", NoElement, <<>>, EvNone)
FeedPanic == Result("Panic", NoElement, <<>>, EvNone)
NotCalled == Result("", NoElement, <<>>, EvNone)

(***************************************************************************)
(* BytesText / BytesCData accessors                                        *)
(***************************************************************************)
XmlSpaces == {"t", "n", "r", "s"}

\* BytesText::is_xml_spaces: every byte is XML whitespace.
is_xml_spaces(s) == \A i \in 1..Len(s) : s[i] \in XmlSpaces

\* Decoder::decode fails on bytes that are not valid in the document encoding.
decodable(s) == \A i \in 1..Len(s) : s[i] # "x"

\* End-of-line normalization: "\r\n" and a lone "\r" become "\n".
RECURSIVE normalize_eols(_)
normalize_eols(s) ==
    IF s = <<>> THEN <<>>
    ELSE IF s[1] = "r"
         THEN IF Len(s) >= 2 /\ s[2] = "n"
              THEN <<"n">> \o normalize_eols(SubSeq(s, 3, Len(s)))
              ELSE <<"n">> \o normalize_eols(Tail(s))
         ELSE <<s[1]>> \o normalize_eols(Tail(s))

\* BytesText::xml_content / BytesCData::xml_content: the decoded content with
\* the ends of lines normalized: Some(content), or None for Err(EncodingError).
xml_content(s) == IF decodable(s) THEN Some(normalize_eols(s)) ELSE None

(***************************************************************************)
(* DomBuilder                                                              *)
(***************************************************************************)
Builder(p, t, so) == [parents |-> p, text |-> t, spaces_only |-> so]

\* DomBuilder::new
new == Builder(<<>>, None, TRUE)

\* A variant of append_text that keeps only the newest content.
append_text_replace(t, content) == Some(content)

\* DomBuilder::append_text
append_text(t, content) ==
    IF t = None THEN Some(content) ELSE Some(t[1] \o content)

\* A variant of push_back that adds the node as the first child.
push_front(p, node) ==
    [p EXCEPT ![Len(p)].children = <<node>> \o @]

\* parent.children.push_back(node), for the last element of the stack
push_back(p, node) ==
    [p EXCEPT ![Len(p)].children = Append(@, node)]

\* A variant of feed_skip in which a comment or PI ends the whitespace run.
feed_skip_marks(b) == [b |-> [b EXCEPT !.spaces_only = FALSE], res |-> NeedData]

\* Comment and PI: feed returns at once, touching nothing.
feed_skip(b) == [b |-> b, res |-> NeedData]

\* A variant of feed_spaces_only that takes a CData event as a Text event.
feed_spaces_only_of_cdata(so, ev) ==
    CASE ev.k \in {"Text", "CData"} /\ so -> is_xml_spaces(ev.s)
      [] OTHER -> so

\* A variant of feed_spaces_only that lets the newest Text event decide.
feed_spaces_only_latest(so, ev) ==
    CASE ev.k = "Text" -> is_xml_spaces(ev.s)
      [] ev.k = "CData" -> FALSE
      [] OTHER -> so

\* The first match of feed, for the events that go on: the new spaces_only.
feed_spaces_only(so, ev) ==
    CASE ev.k = "Text" /\ so -> is_xml_spaces(ev.s)
      [] ev.k = "CData" -> FALSE
      [] OTHER -> so

\* A variant of feed_eof that gives up the open elements.
feed_eof_closes(b) ==
    LET b1 == [b EXCEPT !.spaces_only = TRUE, !.text = None, !.parents = <<>>]
    IN  IF b.text = None THEN [b |-> b1, res |-> NoData]
        ELSE IF b.spaces_only THEN [b |-> b1, res |-> FeedSpace(b.text[1], EvEof)]
        ELSE [b |-> b1, res |-> FeedText(b.text[1], EvEof)]

\* Event::Eof: the pending text is handed out, nothing else changes.
feed_eof(b) ==
    LET b1 == [b EXCEPT !.spaces_only = TRUE, !.text = None]
    IN  IF b.text = None THEN [b |-> b1, res |-> NoData]
        ELSE IF b.spaces_only THEN [b |-> b1, res |-> FeedSpace(b.text[1], EvEof)]
        ELSE [b |-> b1, res |-> FeedText(b.text[1], EvEof)]

\* The node made of the pending text.
text_node(so, content) == IF so THEN NodeSpace(content) ELSE NodeText(content)

\* A variant of create_text_node that keeps the text it returns pending.
create_text_node_keeps(b, ev) ==
    LET so == b.spaces_only
        b1 == [b EXCEPT !.spaces_only = TRUE, !.text = None]
    IN  IF b.text = None THEN [b |-> b1, ret |-> None]
        ELSE IF b.parents # <<>>
             THEN [b |-> [b1 EXCEPT !.parents = push_back(@, text_node(so, b.text[1]))],
                   ret |-> None]
        ELSE IF so THEN [b |-> b, ret |-> Some(FeedSpace(b.text[1], ev))]
        ELSE [b |-> b, ret |-> Some(FeedText(b.text[1], ev))]

\* "if create_text_node": the pending text becomes a child of the open
\* element, or is returned with the event when no element is open.
\* ret is the Option of the early return.
create_text_node(b, ev) ==
    LET so == b.spaces_only
        b1 == [b EXCEPT !.spaces_only = TRUE, !.text = None]
    IN  IF b.text = None THEN [b |-> b1, ret |-> None]
        ELSE IF b.parents # <<>>
             THEN [b |-> [b1 EXCEPT !.parents = push_back(@, text_node(so, b.text[1]))],
                   ret |-> None]
        ELSE IF so THEN [b |-> b1, ret |-> Some(FeedSpace(b.text[1], ev))]
        ELSE [b |-> b1, ret |-> Some(FeedText(b.text[1], ev))]

\* "match unprocessed": the event is applied.
process(b, ev) ==
    CASE ev.k = "Start" ->
            [b |-> [b EXCEPT !.parents = Append(@, ElementFrom(ev.n))], res |-> NeedData]
      [] ev.k = "End" ->
            IF b.parents = <<>> THEN [b |-> b, res |-> FeedPanic]
            ELSE LET element == Last(b.parents)
                     rest == Front(b.parents)
                 IN  IF rest # <<>>
                     THEN [b |-> [b EXCEPT !.parents = push_back(rest, NodeElement(element))],
                           res |-> NeedData]
                     ELSE [b |-> [b EXCEPT !.parents = rest, !.spaces_only = TRUE],
                           res |-> FeedElement(element)]
      [] ev.k = "Empty" ->
            LET element == ElementFrom(ev.n)
            IN  IF b.parents # <<>>
                THEN [b |-> [b EXCEPT !.parents = push_back(@, NodeElement(element))],
                      res |-> NeedData]
                ELSE [b |-> [b EXCEPT !.spaces_only = TRUE], res |-> FeedElement(element)]
      [] ev.k \in TextKinds ->
            LET c == xml_content(ev.s)
            IN  IF c = None THEN [b |-> b, res |-> FeedErr]
                ELSE [b |-> [b EXCEPT !.text = append_text(@, c[1])], res |-> NeedData]

\* DomBuilder::feed
feed(b, ev) ==
    CASE ev.k \in {"Comment", "PI"} -> feed_skip(b)
      [] ev.k \in {"GeneralRef", "Decl", "DocType"} -> [b |-> b, res |-> FeedPanic]
      [] ev.k = "Eof" -> feed_eof(b)
      [] OTHER ->
            LET b0 == [b EXCEPT !.spaces_only = feed_spaces_only(@, ev)]
                c == IF ev.k \in TagKinds THEN create_text_node(b0, ev)
                     ELSE [b |-> b0, ret |-> None]
            IN  IF c.ret # None THEN [b |-> c.b, res |-> c.ret[1]]
                ELSE process(c.b, ev)

(***************************************************************************)
(* A caller of DomBuilder::feed that gives it any events                   *)
(***************************************************************************)
Self == Builder(parents, text, spaces_only)

CanFeed == Len(fed) < MaxFeeds /\ res.k # "Panic"

Feed(ev) ==
    /\ CanFeed
    /\ \E r \in {feed(Self, ev)} :
           /\ parents' = r.b.parents
           /\ text' = r.b.text
           /\ spaces_only' = r.b.spaces_only
           /\ res' = r.res
    /\ fed' = Append(fed, ev)
    /\ UNCHANGED <<fvars, avars, dvars, evars, rvars>>

FeedComment == Feed(EvComment)
FeedPI == Feed(EvPI)
FeedStart == \E ev \in StartEvents : Feed(ev)
FeedEnd == Feed(EvEnd)
FeedEmpty == Feed(EvEmpty)
FeedTextEv == \E ev \in TextEvents : Feed(ev)
FeedCData == \E ev \in CDataEvents : Feed(ev)
FeedGeneralRef == Feed(EvGeneralRef)
FeedDecl == Feed(EvDecl)
FeedDocType == Feed(EvDocType)
FeedEof == Feed(EvEof)

InitBuilder ==
    /\ parents = new.parents
    /\ text = new.text
    /\ spaces_only = new.spaces_only
    /\ res = NotCalled
    /\ fed = <<>>

\* No call of from_str is under way.
NoCall ==
    /\ doc = <<>>
    /\ opened = <<>>
    /\ pc = "idle"
    /\ event = EvNone
    /\ root = None
    /\ out = [k |-> "", node |-> NodeText(<<>>)]

\* No async reader is at work.
NoReader ==
    /\ input = <<>>
    /\ config = [trim_text_start |-> FALSE, trim_text_end |-> FALSE,
                 expand_empty_elements |-> FALSE]
    /\ position = 0
    /\ tag_state = "Init"
    /\ opened_starts = <<>>
    /\ fetches = 0
    /\ emitted = <<>>

\* No map access is at work.
NoMap ==
    /\ map = [attributes |-> <<>>, iter |-> 1, children |-> <<>>, skipped |-> <<>>,
              pending_value |-> [k |-> "Unknown", name |-> "", node |-> NodeText(<<>>)],
              fields |-> {}]
    /\ keys = <<>>
    /\ values = <<>>
    /\ nodes = <<>>
    /\ answer = ""

\* No enum access is at work.
NoEnum ==
    /\ de = <<>>
    /\ enum_access = NoElement
    /\ variant = [k |-> "", name |-> "", is_text |-> FALSE, by |-> ""]

\* No namespace reader is at work.
NoNs == ns_state = None

\* No reader is skipping to the end of an element.
NoSkip == skip_state = None

\* No entity-aware reader is at work.
NoEnt == ent_state = None

\* Neither escape nor unescape is called.
NoEscape == esc_state = None

\* No CDataIterator is made.
NoCData == cdata_state = None

\* No validation iterator is made.
NoValidation == val_state = None

\* No BytesStart is made.
NoStart == bytes_start = None

\* Nothing but the part a specification is about is at work.
NoRest == NoNs /\ NoSkip /\ NoEnt /\ NoEscape /\ NoCData /\ NoValidation /\ NoStart

Init == InitBuilder /\ NoCall /\ NoReader /\ NoMap /\ NoEnum /\ NoRest

Next ==
    \/ FeedComment
    \/ FeedPI
    \/ FeedStart
    \/ FeedEnd
    \/ FeedEmpty
    \/ FeedTextEv
    \/ FeedCData
    \/ FeedGeneralRef
    \/ FeedDecl
    \/ FeedDocType
    \/ FeedEof

Spec == Init /\ [][Next]_vars


(***************************************************************************)
(* The slice reader behind from_str, one token of the document at a time   *)
(***************************************************************************)
\* The tokens a document is made of.  "Malformed" is markup the reader
\* cannot parse.  Text of a &str is valid UTF-8.
DocTokens ==
    {Ev("Start", "a", <<>>), Ev("End", "a", <<>>), Ev("End", "b", <<>>),
     Ev("Empty", "a", <<>>), Ev("Empty", "b", <<>>),
     Ev("Text", "", <<"a">>), Ev("Text", "", <<"s">>), Ev("CData", "", <<"a">>),
     EvComment, EvPI, EvDecl, EvDocType, EvGeneralRef, Ev("Malformed", "", <<>>),
     EvEof}

\* The tokens that can follow the tokens d: text up to the next markup is
\* one Text event, and a document of MaxDoc tokens ends there.
NextTokens(d) ==
    {t \in DocTokens :
        /\ (Len(d) >= MaxDoc) => t.k = "Eof"
        /\ (d # <<>> /\ Last(d).k = "Text") => t.k # "Text"}

ReadOk(ev, stack) == [err |-> FALSE, ev |-> ev, opened |-> stack]
ReadErr(stack) == [err |-> TRUE, ev |-> EvNone, opened |-> stack]

\* A variant of read_event that returns an End that closes no open element.
read_event_unmatched_ends(d, stack, tok) ==
    CASE tok.k = "Start" -> ReadOk(tok, Append(stack, tok.n))
      [] tok.k = "End" ->
            IF stack = <<>> THEN ReadOk(tok, stack)
            ELSE IF Last(stack) # tok.n THEN ReadErr(stack)
            ELSE ReadOk(tok, Front(stack))
      [] tok.k = "Decl" -> IF d # <<>> THEN ReadErr(stack) ELSE ReadOk(tok, stack)
      [] tok.k = "Malformed" -> ReadErr(stack)
      [] tok.k = "Eof" -> IF stack # <<>> THEN ReadErr(stack) ELSE ReadOk(tok, stack)
      [] OTHER -> ReadOk(tok, stack)

\* Reader::read_event, reading the token tok after the tokens d.
read_event(d, stack, tok) ==
    CASE tok.k = "Start" -> ReadOk(tok, Append(stack, tok.n))
      [] tok.k = "End" ->
            IF stack = <<>> \/ Last(stack) # tok.n THEN ReadErr(stack)
            ELSE ReadOk(tok, Front(stack))
      [] tok.k = "Decl" -> IF d # <<>> THEN ReadErr(stack) ELSE ReadOk(tok, stack)
      [] tok.k = "Malformed" -> ReadErr(stack)
      [] tok.k = "Eof" -> IF stack # <<>> THEN ReadErr(stack) ELSE ReadOk(tok, stack)
      [] OTHER -> ReadOk(tok, stack)

(***************************************************************************)
(* Element::from_str and Node::from_str                                    *)
(***************************************************************************)
Returned(k, node) == [k |-> k, node |-> node]
NoNode == NodeText(<<>>)

\* `reader.read_event()?` into event, then on to the place `to`.
ReadInto(to) ==
    \E tok \in NextTokens(doc) :
        LET r == read_event(doc, opened, tok)
        IN  /\ doc' = Append(doc, tok)
            /\ opened' = r.opened
            /\ IF r.err
               THEN /\ out' = Returned("Parse", NoNode)
                    /\ pc' = "done"
                    /\ event' = event
               ELSE /\ event' = r.ev
                    /\ pc' = to
                    /\ out' = out

\* from_str returns.
Return(ret) ==
    /\ out' = ret
    /\ pc' = "done"
    /\ UNCHANGED <<doc, opened, event>>

\* A variant of element_end that takes an empty document for a document.
element_end_lenient(r) ==
    IF r # None THEN Returned("Ok", NodeElement(r[1])) ELSE Returned("Ok", NoNode)

\* Element::from_str, the arm `FeedResult::NoData | FeedResult::Space(_, _)`.
element_end(r) ==
    IF r # None THEN Returned("Ok", NodeElement(r[1])) ELSE Returned("MissingRoot", NoNode)

\* Element::from_str, the arm `FeedResult::Element(fragment)` when root is Some.
element_second == Returned("MultipleRoots", NoNode)

\* Element::from_str, the arm `FeedResult::Text(_, _)`.
element_text == Returned("MissingRoot", NoNode)

\* Node::from_str, the arm `FeedResult::NoData | FeedResult::Space(_, _)`.
node_end(r) ==
    IF r # None THEN Returned("Ok", NodeElement(r[1])) ELSE Returned("Ok", NodeText(<<>>))

\* Node::from_str, the arm `FeedResult::Element(fragment)` when root is Some.
node_second == Returned("MultipleRoots", NoNode)

\* Node::from_str, the arms `FeedResult::Text(text, Event::Eof)` and
\* `FeedResult::Text(_, _)`.
node_text(r, s, next) ==
    IF next.k = "Eof"
    THEN IF r # None THEN Returned("MultipleRoots", NoNode) ELSE Returned("Ok", NodeText(s))
    ELSE Returned("MultipleRoots", NoNode)

\* A variant of is_misc that reads on after comments and processing
\* instructions only.
is_misc_markup_only(ev) == ev.k \in {"Comment", "PI"}

\* The match arm of skip_misc that reads on.
is_misc(ev) == ev.k \in {"Comment", "PI"} \/ (ev.k = "Text" /\ is_xml_spaces(ev.s))

\* Element::from_str: `reader.read_event()?`, the first one.
ElementFirst ==
    /\ pc = "first"
    /\ ReadInto("decl")
    /\ UNCHANGED <<bvars, root, avars, dvars, evars, rvars>>

\* Element::from_str: the optional XML declaration is read over.
ElementDecl ==
    /\ pc = "decl"
    /\ IF event.k = "Decl" THEN ReadInto("misc")
       ELSE pc' = "misc" /\ UNCHANGED <<doc, opened, event, out>>
    /\ UNCHANGED <<bvars, root, avars, dvars, evars, rvars>>

\* skip_misc, one turn of its loop; `to` is where its caller goes on.
SkipMisc(at, to) ==
    /\ pc = at
    /\ IF is_misc(event) THEN ReadInto(at)
       ELSE pc' = to /\ UNCHANGED <<doc, opened, event, out>>
    /\ UNCHANGED <<bvars, root, avars, dvars, evars, rvars>>

ElementMisc == SkipMisc("misc", "doctype")

\* Element::from_str: the optional DOCTYPE is read over.
ElementDocType ==
    /\ pc = "doctype"
    /\ IF event.k = "DocType" THEN ReadInto("misc2")
       ELSE pc' = "loop" /\ UNCHANGED <<doc, opened, event, out>>
    /\ UNCHANGED <<bvars, root, avars, dvars, evars, rvars>>

ElementMisc2 == SkipMisc("misc2", "loop")

\* builder.feed(event): the builder after the call.
Fed1(r, ev) ==
    /\ UNCHANGED <<avars, dvars, evars, rvars>>
    /\ parents' = r.b.parents
    /\ text' = r.b.text
    /\ spaces_only' = r.b.spaces_only
    /\ res' = r.res
    /\ fed' = Append(fed, ev)

\* Element::from_str: one turn of `loop { match builder.feed(event)? ... }`.
ElementLoop ==
    /\ pc = "loop"
    /\ LET r == feed(Self, event)
       IN  /\ Fed1(r, event)
           /\ CASE r.res.k = "Panic" -> Return(Returned("Panic", NoNode)) /\ root' = root
                [] r.res.k = "Err" -> Return(Returned("Parse", NoNode)) /\ root' = root
                [] r.res.k = "NeedData" -> ReadInto("loop") /\ root' = root
                [] r.res.k \in {"NoData", "Space"} -> Return(element_end(root)) /\ root' = root
                [] r.res.k = "Element" ->
                      IF root # None THEN Return(element_second) /\ root' = root
                      ELSE root' = Some(r.res.el) /\ ReadInto("loop")
                [] r.res.k = "Text" -> Return(element_text) /\ root' = root

\* Node::from_str: one turn of its loop.
NodeLoop ==
    /\ pc = "node"
    /\ \E tok \in NextTokens(doc) :
        LET rd == read_event(doc, opened, tok)
            r == feed(Self, rd.ev)
        IN  /\ doc' = Append(doc, tok)
            /\ opened' = rd.opened
            /\ IF rd.err
               THEN /\ out' = Returned("Parse", NoNode)
                    /\ pc' = "done"
                    /\ UNCHANGED <<bvars, event, root, avars, dvars, evars, rvars>>
               ELSE /\ event' = rd.ev
                    /\ Fed1(r, rd.ev)
                    /\ CASE r.res.k = "Panic" ->
                              out' = Returned("Panic", NoNode) /\ pc' = "done" /\ root' = root
                         [] r.res.k = "Err" ->
                              out' = Returned("Parse", NoNode) /\ pc' = "done" /\ root' = root
                         [] r.res.k = "NeedData" -> UNCHANGED <<out, pc, root>>
                         [] r.res.k \in {"NoData", "Space"} ->
                              out' = node_end(root) /\ pc' = "done" /\ root' = root
                         [] r.res.k = "Element" ->
                              IF root # None
                              THEN out' = node_second /\ pc' = "done" /\ root' = root
                              ELSE root' = Some(r.res.el) /\ UNCHANGED <<out, pc>>
                         [] r.res.k = "Text" ->
                              /\ out' = node_text(root, r.res.s, r.res.next)
                              /\ pc' = "done" /\ root' = root

NewCall(at) ==
    /\ doc = <<>>
    /\ opened = <<>>
    /\ pc = at
    /\ event = EvNone
    /\ root = None
    /\ out = Returned("", NoNode)

InitElement == InitBuilder /\ NewCall("first") /\ NoReader /\ NoMap /\ NoEnum /\ NoRest

NextElement ==
    \/ ElementFirst
    \/ ElementDecl
    \/ ElementMisc
    \/ ElementDocType
    \/ ElementMisc2
    \/ ElementLoop

SpecElement == InitElement /\ [][NextElement]_vars

InitNode == InitBuilder /\ NewCall("node") /\ NoReader /\ NoMap /\ NoEnum /\ NoRest

NextNode == NodeLoop

SpecNode == InitNode /\ [][NextNode]_vars

(***************************************************************************)
(* The byte source of the async reader                                     *)
(*                                                                         *)
(* The bytes of markup are "<", ">", "/", "?" and "!".  A reader at work   *)
(* is the record [position, tag_state, opened_starts, io, n]: io is the    *)
(* number of calls of the byte source that succeed before one fails with   *)
(* an I/O error (NoFail: none fails), n counts the calls of the source.    *)
(***************************************************************************)
InputBytes == {"<", ">", "/", "?", "!", "a", "s"}

\* Every input of up to MaxInput bytes, and some longer documents in which
\* elements are opened and closed.
Documents == {<<"<", "a", ">", "<", "/", "a", ">">>,
              <<"<", ">", "<", ">", "<", "/", ">">>,
              <<"<", "a", ">", "s", "<", "/", "a", ">">>}
Inputs == UNION {[1..n -> InputBytes] : n \in 0..MaxInput} \cup Documents

NoFail == 0 - 1

\* The source fails with an I/O error at its first, second, ... call of one
\* read_event_into_async, or not at all.
IoChoices == {NoFail} \cup (0..3)

is_whitespace(b) == b \in {"s", "t", "n", "r"}

Rest(r) == SubSeq(input, r.position + 1, Len(input))

RECURSIVE IndexOf(_, _)
\* The index of the first b in s, 0 when there is none.
IndexOf(s, b) ==
    IF s = <<>> THEN 0
    ELSE IF s[1] = b THEN 1
    ELSE LET i == IndexOf(Tail(s), b) IN IF i = 0 THEN 0 ELSE i + 1

RECURSIVE LeadingSpaces(_)
LeadingSpaces(s) ==
    IF s # <<>> /\ is_whitespace(s[1]) THEN 1 + LeadingSpaces(Tail(s)) ELSE 0

RECURSIVE TrailingSpaces(_)
TrailingSpaces(s) ==
    IF s # <<>> /\ is_whitespace(Last(s)) THEN 1 + TrailingSpaces(Front(s)) ELSE 0

\* A call of the source that succeeded with value v and left the cursor at p.
SrcOk(r, v, p) ==
    [err |-> "", v |-> v,
     r |-> [r EXCEPT !.position = p,
                     !.io = IF @ > 0 THEN @ - 1 ELSE @,
                     !.n = @ + 1]]

\* A call of the source that failed.
SrcErr(r, e) == [err |-> e, v |-> None, r |-> [r EXCEPT !.n = @ + 1]]

skip_whitespace(r) ==
    IF r.io = 0 THEN SrcErr(r, "Io")
    ELSE SrcOk(r, None, r.position + LeadingSpaces(Rest(r)))

skip_one(r, b) ==
    IF r.io = 0 THEN SrcErr(r, "Io")
    ELSE IF Rest(r) # <<>> /\ Rest(r)[1] = b
         THEN SrcOk(r, Some(b), r.position + 1)
         ELSE SrcOk(r, None, r.position)

peek_one(r) ==
    IF r.io = 0 THEN SrcErr(r, "Io")
    ELSE IF Rest(r) # <<>>
         THEN SrcOk(r, Some(Rest(r)[1]), r.position)
         ELSE SrcOk(r, None, r.position)

\* The bytes before the terminator b, which is consumed too.  None at the end
\* of the input.  Text ends at the end of the input; inside markup the end
\* of the input before the terminator is an unexpected EOF.
read_bytes_until(r, b) ==
    LET rest == Rest(r)
        i == IndexOf(rest, b)
    IN  IF r.io = 0 THEN SrcErr(r, "Io")
        ELSE IF rest = <<>> THEN SrcOk(r, None, r.position)
        ELSE IF i > 0 THEN SrcOk(r, Some(SubSeq(rest, 1, i - 1)), r.position + i)
        ELSE IF b = "<" THEN SrcOk(r, Some(rest), Len(input))
        ELSE SrcErr(r, "UnexpectedEof")

\* The body of a tag up to the ">" (there are no quotes among InputBytes).
read_element(r) ==
    LET rest == Rest(r)
        i == IndexOf(rest, ">")
    IN  IF r.io = 0 THEN SrcErr(r, "Io")
        ELSE IF rest = <<>> THEN SrcOk(r, None, r.position)
        ELSE IF i > 0 THEN SrcOk(r, Some(SubSeq(rest, 1, i - 1)), r.position + i)
        ELSE SrcErr(r, "UnexpectedEof")

\* "<!" is followed by "--", "[CDATA[" or "DOCTYPE"; no InputBytes begin
\* one of them, so what follows "!" is unknown markup, and nothing after "!"
\* is an unexpected EOF.
read_bang_element(r) ==
    IF r.io = 0 THEN SrcErr(r, "Io")
    ELSE IF Len(Rest(r)) < 2 THEN SrcErr(r, "UnexpectedEof")
    ELSE SrcErr(r, "UnknownMarkup")

(***************************************************************************)
(* The async reader                                                        *)
(***************************************************************************)
TagStates == {"Init", "Closed", "Opened", "Empty", "Exit"}

\* What a call returns: Ok(event) with k the event's kind and s its bytes,
\* or Err (k = "Err") with e the error.  markup: read_until_close_async
\* made it, that is, a "<" had been consumed.
Ok(k, s) == [k |-> k, s |-> s, e |-> "", markup |-> FALSE]
Err(e) == [k |-> "Err", s |-> <<>>, e |-> e, markup |-> FALSE]
Eof == Ok("Eof", <<>>)

\* The reader r and the event it returns.
Read(r, ev) == [r |-> r, ev |-> ev]

\* The name of a tag: its bytes up to the first whitespace.
TagName(bytes) ==
    LET RECURSIVE name(_)
        name(s) == IF s = <<>> \/ is_whitespace(s[1]) THEN <<>>
                   ELSE <<s[1]>> \o name(Tail(s))
    IN  name(bytes)

\* bytes is what stands between "<" and ">".
read_start(r, bytes) ==
    IF bytes # <<>> /\ Last(bytes) = "/"
    THEN LET name == TagName(Front(bytes))
         IN  IF config.expand_empty_elements
             THEN Read([r EXCEPT !.tag_state = "Empty",
                                 !.opened_starts = Append(@, name)],
                       Ok("Start", name))
             ELSE Read(r, Ok("Empty", name))
    ELSE LET name == TagName(bytes)
         IN  Read([r EXCEPT !.opened_starts = Append(@, name)], Ok("Start", name))

\* A variant of read_end that leaves the element on the stack.
read_end_keeps(r, bytes) ==
    LET body == Tail(bytes)
        name == SubSeq(body, 1, Len(body) - TrailingSpaces(body))
    IN  IF r.opened_starts = <<>> THEN Read(r, Err("UnmatchedEndTag"))
        ELSE IF Last(r.opened_starts) # name THEN Read(r, Err("MismatchedEndTag"))
        ELSE Read(r, Ok("End", name))

\* bytes begins with "/"; the name is what follows, whitespace before ">"
\* apart, and it is the name of the innermost open element.
read_end(r, bytes) ==
    LET body == Tail(bytes)
        name == SubSeq(body, 1, Len(body) - TrailingSpaces(body))
    IN  IF r.opened_starts = <<>> THEN Read(r, Err("UnmatchedEndTag"))
        ELSE IF Last(r.opened_starts) # name THEN Read(r, Err("MismatchedEndTag"))
        ELSE Read([r EXCEPT !.opened_starts = Front(@)], Ok("End", name))

\* bytes begins with "?"; a processing instruction ends with "?" too.
read_question_mark(r, bytes) ==
    IF Len(bytes) > 1 /\ Last(bytes) = "?"
    THEN Read(r, Ok("PI", SubSeq(bytes, 2, Len(bytes) - 1)))
    ELSE Read(r, Err("UnexpectedEof"))

\* bytes begins with "!"; see read_bang_element, which gives no bytes here.
read_bang(r, bytes) == Read(r, Err("UnknownMarkup"))

\* The End of an Empty element that was given out as a Start.
close_expanded_empty(r) ==
    Read([r EXCEPT !.tag_state = "Closed", !.opened_starts = Front(@)],
         Ok("End", Last(r.opened_starts)))

\* read_until_close_async, the arms `Ok(None) => Ok(Event::Eof)`.
close_eof(r) == Read(r, Eof)

\* The source's answer turned into the event, by the parser of the markup
\* that the byte after "<" announces when bytes came.
close_arm(got, byte) ==
    IF got.err # "" THEN Read(got.r, Err(got.err))
    ELSE IF got.v = None THEN close_eof(got.r)
    ELSE CASE byte = "!" -> read_bang(got.r, got.v[1])
           [] byte = "/" -> read_end(got.r, got.v[1])
           [] byte = "?" -> read_question_mark(got.r, got.v[1])
           [] OTHER -> read_start(got.r, got.v[1])

read_until_close_async(r0) ==
    LET r == [r0 EXCEPT !.tag_state = "Closed"]
        peek == peek_one(r)
        made ==
            IF peek.err # "" THEN Read(peek.r, Err(peek.err))
            ELSE IF peek.v = None THEN close_eof(peek.r)
            ELSE IF peek.v = Some("!")
                 THEN close_arm(read_bang_element(peek.r), "!")
            ELSE IF peek.v = Some("/")
                 THEN close_arm(read_bytes_until(peek.r, ">"), "/")
            ELSE IF peek.v = Some("?")
                 THEN close_arm(read_bytes_until(peek.r, ">"), "?")
            ELSE close_arm(read_element(peek.r), peek.v[1])
    IN  [made EXCEPT !.ev.markup = TRUE]

\* A variant of text_content that cuts a text of whitespace only down to
\* nothing.
text_content_trimmed(bytes) ==
    IF config.trim_text_end
    THEN SubSeq(bytes, 1, Len(bytes) - TrailingSpaces(bytes))
    ELSE bytes

\* The content of the text event made of bytes: with trim_text_end, bytes up
\* to its last byte that is no whitespace, all of bytes when there is none.
text_content(bytes) ==
    IF config.trim_text_end
    THEN IF TrailingSpaces(bytes) = Len(bytes) THEN bytes
         ELSE SubSeq(bytes, 1, Len(bytes) - TrailingSpaces(bytes))
    ELSE bytes

\* A variant of exit_on_end in which only an error ends the reading.
exit_on_error_only(read) ==
    IF read.ev.k = "Err" THEN [read EXCEPT !.r.tag_state = "Exit"] ELSE read

\* read_event_into_async, after the event was made: an error and Eof move
\* the reader to Exit.
exit_on_end(read) ==
    IF read.ev.k \in {"Err", "Eof"}
    THEN [read EXCEPT !.r.tag_state = "Exit"]
    ELSE read

RECURSIVE read_event_into_async(_)
RECURSIVE read_until_open_async(_, _)

read_until_open_async(r0, first) ==
    LET r == [r0 EXCEPT !.tag_state = "Opened"]
        skipped == IF config.trim_text_start THEN skip_whitespace(r)
                   ELSE [err |-> "", v |-> None, r |-> r]
        lt == skip_one(skipped.r, "<")
        got == read_bytes_until(lt.r, "<")
    IN  IF skipped.err # "" THEN Read(skipped.r, Err(skipped.err))
        ELSE IF lt.err # "" THEN Read(lt.r, Err(lt.err))
        ELSE IF lt.v # None THEN read_event_into_async(lt.r)
        ELSE IF got.err # "" THEN Read(got.r, Err(got.err))
        ELSE IF got.v = None THEN Read(got.r, Eof)
        ELSE Read(got.r, Ok(IF first THEN "StartText" ELSE "Text",
                            text_content(got.v[1])))

read_event_into_async(r) ==
    IF r.tag_state = "Exit" THEN Read(r, Eof)
    ELSE exit_on_end(
            CASE r.tag_state = "Init" -> read_until_open_async(r, TRUE)
              [] r.tag_state = "Closed" -> read_until_open_async(r, FALSE)
              [] r.tag_state = "Opened" -> read_until_close_async(r)
              [] r.tag_state = "Empty" -> close_expanded_empty(r))

(***************************************************************************)
(* A caller of read_event_into_async                                       *)
(***************************************************************************)
\* One call, the source failing as io says. A source that is to fail is one
\* the reader calls often enough to reach the failure, or the call before it:
\* with fewer calls the call is one of a source that does not fail.
ReadEvent(io) ==
    /\ Len(emitted) < MaxReads
    /\ \E read \in {read_event_into_async(
                       [position |-> position, tag_state |-> tag_state,
                        opened_starts |-> opened_starts, io |-> io, n |-> 0])} :
           /\ io # NoFail => read.r.io = 0
           /\ position' = read.r.position
           /\ tag_state' = read.r.tag_state
           /\ opened_starts' = read.r.opened_starts
           /\ fetches' = fetches + read.r.n
           /\ emitted' = Append(emitted, read.ev)
    /\ UNCHANGED <<input, config, bvars, fvars, dvars, evars, rvars>>

\* A call during which the source does not fail.
ReadEventIntoAsync == ReadEvent(NoFail)

\* A call during which the source fails with an I/O error.
ReadEventIntoAsyncIo == \E io \in IoChoices \ {NoFail} : ReadEvent(io)

\* Reader::from_async_reader over any input, with any flags.
InitReader ==
    /\ InitBuilder
    /\ NoCall
    /\ NoMap
    /\ NoEnum
    /\ NoRest
    /\ input \in Inputs
    /\ config \in [trim_text_start : BOOLEAN, trim_text_end : BOOLEAN,
                   expand_empty_elements : BOOLEAN]
    /\ position = 0
    /\ tag_state = "Init"
    /\ opened_starts = <<>>
    /\ fetches = 0
    /\ emitted = <<>>

NextReader == ReadEventIntoAsync \/ ReadEventIntoAsyncIo

SpecReader == InitReader /\ [][NextReader]_vars

(***************************************************************************)
(* What the history says: runs of text and the tree of a closed element    *)
(***************************************************************************)
RunKinds == TextKinds \cup {"Comment", "PI"}

\* The Text and CData events of the run that ends the history h: the events
\* after the last event that is neither text nor a comment nor a PI.
RECURSIVE RunEvents(_)
RunEvents(h) ==
    IF h = <<>> THEN <<>>
    ELSE IF Last(h).k \in TextKinds THEN Append(RunEvents(Front(h)), Last(h))
    ELSE IF Last(h).k \in {"Comment", "PI"} THEN RunEvents(Front(h))
    ELSE <<>>

\* Some event of the run has a content.
RunHasContent(run) == \E i \in 1..Len(run) : decodable(run[i].s)

\* The contents of the run's events, concatenated in order.
RECURSIVE RunContent(_)
RunContent(run) ==
    IF run = <<>> THEN <<>>
    ELSE IF decodable(run[1].s) THEN normalize_eols(run[1].s) \o RunContent(Tail(run))
    ELSE RunContent(Tail(run))

\* Space for a run of whitespace-only Text events, Text for any other run.
RunKind(run) ==
    IF \A i \in 1..Len(run) : run[i].k = "Text" /\ is_xml_spaces(run[i].s)
    THEN "Space" ELSE "Text"

IsTextNode(node) == node.k \in {"Text", "Space"}

\* The element that a tag event has just left behind as the open element's
\* record: where the flushed text node of a run is to be found.
\*   d: the depth before the event; e: the event; p, r: parents and res after.
ElementAfter(d, e, p, r) ==
    IF e.k # "End" THEN Element(p[d].tag, p[d].children)
    ELSE IF d = 1 THEN r.el
    ELSE LET n == Last(p[d - 1].children) IN Element(n.tag, n.children)

\* The number of trailing children a tag event adds after the text node.
Added(e) == IF e.k = "Empty" THEN 1 ELSE 0

\* In a list of children no text node follows a text node.
RECURSIVE NoAdjacentText(_)
NoAdjacentText(children) ==
    \A i \in 1..Len(children) :
        /\ (i > 1 /\ IsTextNode(children[i])) => ~IsTextNode(children[i - 1])
        /\ NoAdjacentText(children[i].children)

\* The index of the End that closes an element opened before position i of
\* seg, where depth elements are open at i; 0 when there is none.
RECURSIVE MatchEnd(_, _, _)
MatchEnd(seg, i, depth) ==
    IF i > Len(seg) THEN 0
    ELSE IF seg[i].k = "End"
         THEN IF depth = 1 THEN i ELSE MatchEnd(seg, i + 1, depth - 1)
    ELSE IF seg[i].k = "Start" THEN MatchEnd(seg, i + 1, depth + 1)
    ELSE MatchEnd(seg, i + 1, depth)

\* The length of the longest prefix of seg made of text, comments and PIs.
RECURSIVE RunLen(_)
RunLen(seg) ==
    IF seg = <<>> \/ seg[1].k \notin RunKinds THEN 0 ELSE 1 + RunLen(Tail(seg))

\* The nodes of a balanced sequence of events, in document order: one node
\* per run that has a content (a run cut by Eof was handed to the caller),
\* one element per Empty and per Start with its End.
RECURSIVE RefNodes(_)
RefNodes(seg) ==
    IF seg = <<>> THEN <<>>
    ELSE LET e == seg[1] IN
         CASE e.k \in RunKinds ->
                LET j == RunLen(seg)
                    run == RunEvents(SubSeq(seg, 1, j))
                    rest == SubSeq(seg, j + 1, Len(seg))
                IN  IF rest # <<>> /\ rest[1].k = "Eof" THEN RefNodes(rest)
                    ELSE IF ~RunHasContent(run) THEN RefNodes(rest)
                    ELSE IF RunKind(run) = "Space"
                         THEN <<NodeSpace(RunContent(run))>> \o RefNodes(rest)
                    ELSE <<NodeText(RunContent(run))>> \o RefNodes(rest)
           [] e.k = "Empty" -> <<NodeElement(Element(e.n, <<>>))>> \o RefNodes(Tail(seg))
           [] e.k = "Start" ->
                LET j == MatchEnd(seg, 2, 1)
                IN  <<NodeElement(Element(e.n, RefNodes(SubSeq(seg, 2, j - 1))))>>
                        \o RefNodes(SubSeq(seg, j + 1, Len(seg)))
           [] OTHER -> RefNodes(Tail(seg))

\* The element whose End is the last event of h, read off the history.
RefRoot(h) ==
    LET i == CHOOSE i \in 1..Len(h) : h[i].k = "Start" /\ MatchEnd(h, i + 1, 1) = Len(h)
    IN  Element(h[i].n, RefNodes(SubSeq(h, i + 1, Len(h) - 1)))

Fed == fed' # fed
FedEvent == Last(fed')

(***************************************************************************)
(* C1: while an element is open, a maximal run of Text and CData events    *)
(* (comments and PIs inside do not break it) becomes exactly one text node *)
(* of that element, its content the run's contents in feed order, and the  *)
(* node is a child before the Start, End or Empty that ends the run is     *)
(* applied.                                                                *)
(***************************************************************************)
C1_Step ==
    (Fed /\ FedEvent.k \in TagKinds /\ parents # <<>> /\ RunHasContent(RunEvents(fed))) =>
        LET d == Len(parents)
            before == parents[d].children
            after == ElementAfter(d, FedEvent, parents', res').children
            at == Len(before) + 1
        IN  /\ Len(after) = at + Added(FedEvent)
            /\ SubSeq(after, 1, Len(before)) = before
            /\ IsTextNode(after[at])
            /\ after[at].s = RunContent(RunEvents(fed))
            /\ FedEvent.k = "Empty" => after[at + 1] = NodeElement(ElementFrom(FedEvent.n))
            /\ FedEvent.k = "Start" => parents' = Append(SubSeq(parents', 1, d), ElementFrom(FedEvent.n))

C1_OneNodePerRun ==
    /\ \A i \in 1..Len(parents) : NoAdjacentText(parents[i].children)
    /\ NoAdjacentText(res.el.children)

C1_RunMerged == [](C1_OneNodePerRun) /\ [][C1_Step]_vars

C1_Witness ==
    /\ Len(fed) = 5
    /\ fed[2].k = "Text" /\ fed[3].k = "Comment" /\ fed[4].k = "CData" /\ fed[5].k = "End"
    /\ res.k = "Element"
    /\ res.el.children = <<NodeText(<<"n", "a">>)>>

(***************************************************************************)
(* C2: a flushed text run is Space (a Node::Space child or                 *)
(* FeedResult::Space) whenever its content is XML whitespace only, and     *)
(* Text otherwise.                                                         *)
(***************************************************************************)
RECURSIVE SpaceIffBlank(_)
SpaceIffBlank(children) ==
    \A i \in 1..Len(children) :
        /\ IsTextNode(children[i]) =>
                (children[i].k = "Space" <=> is_xml_spaces(children[i].s))
        /\ SpaceIffBlank(children[i].children)

\* The claim as stated: a state predicate over every text node made so far.
C2_SpaceIffBlankContent ==
    /\ \A i \in 1..Len(parents) : SpaceIffBlank(parents[i].children)
    /\ SpaceIffBlank(res.el.children)
    /\ res.k \in {"Text", "Space"} => (res.k = "Space" <=> is_xml_spaces(res.s))

\* The kind of the text that the step has flushed.
FlushedKind ==
    IF FedEvent.k \in TagKinds /\ parents # <<>>
    THEN ElementAfter(Len(parents), FedEvent, parents', res').children[
             Len(parents[Len(parents)].children) + 1].k
    ELSE res'.k

\* C2 as amended: a flushed run is Space when it holds no CData event and
\* each of its Text events is XML whitespace only, and Text otherwise.
C2_Step ==
    (Fed /\ FedEvent.k \in TagKinds \cup {"Eof"} /\ text # None) =>
        FlushedKind = RunKind(RunEvents(fed))

C2_SpaceIffBlankTextEvents == [][C2_Step]_vars

C2_Witness ==
    /\ Len(fed) = 4 /\ Len(parents) = 1
    /\ fed[2].k = "Text" /\ fed[3].k = "CData" /\ fed[4].k = "Empty"
    /\ is_xml_spaces(fed[2].s) /\ is_xml_spaces(fed[3].s)
    /\ parents[1].children = <<NodeText(<<"s", "s">>), NodeElement(ElementFrom("a"))>>

(***************************************************************************)
(* C3: the End that empties the stack of open elements, and an Empty       *)
(* processed while no element is open, return Element(root), root's        *)
(* children being the nodes completed between its Start and its End in     *)
(* document order; every other Start, End or Empty processed while an      *)
(* element is open returns NeedData.                                       *)
(***************************************************************************)
C3_Step ==
    (Fed /\ FedEvent.k \in TagKinds) =>
        CASE FedEvent.k = "End" /\ Len(parents) = 1 ->
                res'.k = "Element" /\ res'.el = RefRoot(fed') /\ parents' = <<>>
          [] FedEvent.k = "Empty" /\ parents = <<>> /\ text = None ->
                res'.k = "Element" /\ res'.el = Element(FedEvent.n, <<>>) /\ parents' = <<>>
          [] parents # <<>> -> res'.k = "NeedData"
          [] OTHER -> TRUE

C3_RootReturned == [][C3_Step]_vars

C3_Witness ==
    /\ fed # <<>> /\ Last(fed).k = "End"
    /\ res.k = "Element"
    /\ Len(res.el.children) = 3
    /\ res.el.children[1].k = "Space"
    /\ res.el.children[2].k = "Element"
    /\ res.el.children[3].k = "Text"

(***************************************************************************)
(* C9: an XML declaration or a DOCTYPE given to feed is skipped silently:  *)
(* feed returns normally and the builder is as it was.                     *)
(***************************************************************************)
C9_DeclAndDocTypeSkipped ==
    (fed # <<>> /\ Last(fed).k \in {"Decl", "DocType"}) => res.k = "NeedData"

(***************************************************************************)
(* C10: a Comment or PI given to feed returns NeedData and leaves the      *)
(* stack of open elements, the pending text and spaces_only as they were.  *)
(***************************************************************************)
C10_Step ==
    (Fed /\ FedEvent.k \in {"Comment", "PI"}) =>
        /\ res'.k = "NeedData"
        /\ UNCHANGED <<parents, text, spaces_only>>

C10_CommentAndPIKeepState == [][C10_Step]_vars

C10_Witness ==
    /\ fed # <<>> /\ Last(fed).k \in {"Comment", "PI"}
    /\ parents # <<>> /\ text # None /\ spaces_only
    /\ res.k = "NeedData"

(***************************************************************************)
(* What a document holds at its top level                                  *)
(***************************************************************************)
\* The number of elements open after the tokens d.
RECURSIVE Depth(_)
Depth(d) ==
    IF d = <<>> THEN 0
    ELSE Depth(Front(d)) + (CASE Last(d).k = "Start" -> 1 [] Last(d).k = "End" -> -1 [] OTHER -> 0)

\* The positions of the tokens of d that are at the top level.
TopLevel(d) == {i \in 1..Len(d) : Depth(SubSeq(d, 1, i - 1)) = 0}

\* The number of top-level elements of d.
TopElements(d) == Cardinality({i \in TopLevel(d) : d[i].k \in {"Start", "Empty"}})

\* d has top-level text that is more than whitespace.
TopText(d) == \E i \in TopLevel(d) : d[i].k \in TextKinds /\ ~is_xml_spaces(d[i].s)

\* from_str has returned a value or one of the two errors about roots.
Decided == out.k \in {"Ok", "MissingRoot", "MultipleRoots"}

(***************************************************************************)
(* C6: Element::from_str returns Err(DomError::MultipleRoots) for every    *)
(* document that holds more than one top-level element.                    *)
(***************************************************************************)
C6_TwoElementsAreMultipleRoots ==
    (Decided /\ TopElements(doc) > 1) => out.k = "MultipleRoots"

(***************************************************************************)
(* C7: Element::from_str returns Err(DomError::MissingRoot) for a document *)
(* without a root element: the empty input, and a document whose only      *)
(* top-level content is text.                                              *)
(***************************************************************************)
\* The whole document was read and it is text, comments and PIs only.
TextOnly(d) ==
    /\ d # <<>> /\ Last(d).k = "Eof"
    /\ \A i \in 1..(Len(d) - 1) : d[i].k \in RunKinds

C8_TwoNodesAreMultipleRoots ==
    (Decided /\ (TopElements(doc) > 1 \/ (TopElements(doc) = 1 /\ TopText(doc))))
        => out.k = "MultipleRoots"

(***************************************************************************)
(* C4: once read_event_into_async has returned Eof or an error the reader  *)
(* is in Exit, and in Exit it stays: every later call returns Eof, moves   *)
(* nothing and does not call the byte source.                              *)
(***************************************************************************)
C4_Ended ==
    emitted # <<>> /\ Last(emitted).k \in {"Eof", "Err"} => tag_state = "Exit"

C4_Step ==
    tag_state = "Exit" =>
        /\ tag_state' = "Exit"
        /\ position' = position
        /\ opened_starts' = opened_starts
        /\ fetches' = fetches
        /\ emitted' # emitted => Last(emitted') = Eof

C4_ExitIsFinal == [](C4_Ended) /\ [][C4_Step]_vars

\* An error ended the reading before the end of the input, and the next call
\* returned Eof.
C4_Witness ==
    /\ Len(emitted) >= 2
    /\ emitted[1].k = "Err"
    /\ emitted[2] = Eof
    /\ position < Len(input)
    /\ tag_state = "Exit"

(***************************************************************************)
(* C5: a read that meets the end of the input after a "<" was consumed and *)
(* before the markup's terminator returns an error, never Eof.             *)
(***************************************************************************)
C5_EofInsideMarkupIsError ==
    \A i \in 1..Len(emitted) : emitted[i].markup => emitted[i].k # "Eof"

(***************************************************************************)
(* C11: a document whose element content holds an entity or character     *)
(* reference is built into a DOM: the building neither fails nor panics    *)
(* at the reference.                                                       *)
(***************************************************************************)
\* The tokens read hold a reference inside an element.
ReferenceInElement(d) ==
    \E i \in 1..Len(d) : d[i].k = "GeneralRef" /\ Depth(SubSeq(d, 1, i - 1)) > 0

C11_ReferenceInTextBuilds ==
    ReferenceInElement(doc) => out.k # "Panic"

(***************************************************************************)
(* de/dom/map.rs: ElementMapAccess, the serde MapAccess over one element   *)
(* of the DOM.  The element's tag names carry no prefix here, so that      *)
(* name() and local_name() are the same string.  The attribute iterator   *)
(* (IterState) is not in src/; it is modelled after the specification: it  *)
(* yields the attributes one by one, in document order, then None.         *)
(***************************************************************************)
MaxChildren == 3

AttrLists == {<<>>, <<"x">>, <<"x", "y">>}
FieldNames == {"a", "$text", "$value"}
MapNodes == {NodeElement(ElementFrom("a")), NodeElement(ElementFrom("b")),
             NodeText(<<"a">>), NodeSpace(<<"s">>)}
ChildLists ==
    {c \in UNION {[1..n -> MapNodes] : n \in 0..MaxChildren} : NoAdjacentText(c)}

\* enum Value
Unknown == [k |-> "Unknown", name |-> "", node |-> NodeText(<<>>)]
Attribute(name) == [k |-> "Attribute", name |-> name, node |-> NodeText(<<>>)]
Pending(k, node) == [k |-> k, name |-> "", node |-> node]

\* A key given to the seed: the prefix "@" and the attribute's name, the
\* markers $text and $value, or the name of a child element.
Key(k, name) == [k |-> k, name |-> name]
\* A value given to the seed of next_value_seed: the key it was read
\* for, what the seed asked for, and the nodes it was read from.
Val(key, how, items) == [key |-> key, how |-> how, items |-> items]

\* ElementMapAccess::new
MapAccess(attrs, cs, fields) ==
    [attributes |-> attrs, iter |-> 1, children |-> cs, skipped |-> <<>>,
     pending_value |-> Unknown, fields |-> fields]

has_text_field(m) == "$text" \in m.fields
has_value_field(m) == "$value" \in m.fields

\* IterState::next over the attributes
iter_next(m) ==
    IF m.iter <= Len(m.attributes) THEN Some(m.attributes[m.iter]) ELSE None

\* ElementMapAccess::skip_whitespaces: the first node that is not a Space
\* and the children that stay behind it.
RECURSIVE skip_whitespaces(_)
skip_whitespaces(children) ==
    IF children = <<>> THEN [node |-> None, children |-> <<>>]
    ELSE IF children[1].k = "Space" THEN skip_whitespaces(Tail(children))
    ELSE [node |-> Some(children[1]), children |-> Tail(children)]

\* A variant of not_in for which every name is a declared field.
not_in_never(m, e) == FALSE

\* ElementMapAccess::not_in
not_in(m, e) == \A f \in m.fields : e.tag # f

KeyRead(m, key) == [m |-> m, key |-> key]

\* A variant of next_key_seed that looks at the children before the
\* attributes.
next_key_seed_children_first(m) ==
    LET sk == skip_whitespaces(m.children)
    IN  IF sk.node # None /\ sk.node[1].k = "Element"
        THEN KeyRead([m EXCEPT !.children = sk.children,
                               !.pending_value = Pending("Field", sk.node[1])],
                     Some(Key("elem", sk.node[1].tag)))
        ELSE IF iter_next(m) # None
        THEN KeyRead([m EXCEPT !.iter = @ + 1,
                               !.pending_value = Attribute(iter_next(m)[1])],
                     Some(Key("@", iter_next(m)[1])))
        ELSE KeyRead([m EXCEPT !.children = sk.children], None)

\* MapAccess::next_key_seed, past its debug_assert
next_key_seed(m) ==
    IF iter_next(m) # None
    THEN KeyRead([m EXCEPT !.iter = @ + 1,
                           !.pending_value = Attribute(iter_next(m)[1])],
                 Some(Key("@", iter_next(m)[1])))
    ELSE LET sk == skip_whitespaces(m.children)
             left == [m EXCEPT !.children = sk.children]
         IN  IF sk.node = None THEN KeyRead(left, None)
             ELSE LET node == sk.node[1]
                  IN  IF node.k \in {"Text", "Space"}
                      THEN IF has_value_field(m) /\ ~has_text_field(m)
                           THEN KeyRead([left EXCEPT !.pending_value =
                                             Pending("Value", NodeText(node.s))],
                                        Some(Key("$value", "")))
                           ELSE KeyRead([left EXCEPT !.pending_value =
                                             Pending("Text", NodeText(node.s))],
                                        Some(Key("$text", "")))
                      ELSE IF has_value_field(m) /\ not_in(m, node)
                           THEN KeyRead([left EXCEPT !.pending_value =
                                             Pending("Value", node)],
                                        Some(Key("$value", "")))
                           ELSE KeyRead([left EXCEPT !.pending_value =
                                             Pending("Field", node)],
                                        Some(Key("elem", node.tag)))

\* The state of a sequence access: the item held back, and the children
\* and skipped nodes of the map it borrows.
SeqState(item, children, skipped) ==
    [item |-> item, children |-> children, skipped |-> skipped]

\* A variant of field_item that takes any element.
field_item_any(node, pending) == node.k = "Element"

\* FieldSeqAccess::next_element_seed, the arm
\* `Node::Element(e) if e.tag.name() == pending.tag.name()`
field_item(node, pending) == node.k = "Element" /\ node.tag = pending.tag

\* FieldSeqAccess::next_element_seed, its `while let` loop: the children
\* are popped up to the next element named as the pending one.
RECURSIVE field_scan(_, _, _)
field_scan(pending, children, skipped) ==
    IF children = <<>> THEN SeqState(None, <<>>, skipped)
    ELSE IF field_item(children[1], pending)
    THEN SeqState(Some(children[1]), Tail(children), skipped)
    ELSE field_scan(pending, Tail(children), Append(skipped, children[1]))

\* ValueSeqAccess::next_element_seed, its `while let` loop.
RECURSIVE value_scan(_, _, _)
value_scan(m, children, skipped) ==
    IF children = <<>> THEN SeqState(None, <<>>, skipped)
    ELSE LET node == children[1]
         IN  IF node.k = "Element" /\ ~not_in(m, node)
             THEN value_scan(m, Tail(children), Append(skipped, node))
             ELSE IF node.k = "Text" /\ has_text_field(m)
             THEN value_scan(m, Tail(children), Append(skipped, node))
             ELSE IF node.k = "Space"
             THEN value_scan(m, Tail(children), skipped)
             ELSE SeqState(Some(node), Tail(children), skipped)

\* Visitor::visit_seq of a growable sequence over a FieldSeqAccess: it
\* calls next_element_seed until that answers None.
RECURSIVE field_visit_seq(_, _)
field_visit_seq(st, items) ==
    IF st.item = None THEN [st |-> st, items |-> items]
    ELSE field_visit_seq(field_scan(st.item[1], st.children, st.skipped),
                         Append(items, st.item[1]))

\* Visitor::visit_seq of a growable sequence over a ValueSeqAccess.
RECURSIVE value_visit_seq(_, _, _)
value_visit_seq(m, st, items) ==
    IF st.item = None THEN [st |-> st, items |-> items]
    ELSE value_visit_seq(m, value_scan(m, st.children, st.skipped),
                         Append(items, st.item[1]))

ValueRead(m, k, items) == [m |-> m, k |-> k, items |-> items]

\* Whether the pending value is read through FieldDeserializer or
\* ValueDeserializer, the two that look at what the seed asks for.
asked(m, how) == IF m.pending_value.k \in {"Value", "Field"} THEN how ELSE "one"

\* FieldDeserializer::deserialize_seq
field_deserialize_seq(m, elem) ==
    LET seq == field_visit_seq(SeqState(Some(elem), m.children, m.skipped), <<>>)
    IN  ValueRead([m EXCEPT !.children = seq.st.children \o seq.st.skipped,
                            !.skipped = <<>>],
                  "Value", seq.items)

\* ValueDeserializer::deserialize_seq
value_deserialize_seq(m, node) ==
    LET seq == value_visit_seq(m, SeqState(Some(node), m.children, m.skipped), <<>>)
    IN  ValueRead([m EXCEPT !.children = seq.st.children \o seq.st.skipped,
                            !.skipped = <<>>],
                  "Value", seq.items)

\* What the seed asks of the deserializer it is given: one value
\* (deserialize_any and the methods forwarded to the node), a sequence
\* (deserialize_seq) or a map (deserialize_map).
Hows == {"one", "seq", "map"}

\* A variant of key_not_read that answers with the next child, if any.
key_not_read_takes_child(m) ==
    IF m.children = <<>> THEN ValueRead(m, "KeyNotRead", <<>>)
    ELSE ValueRead([m EXCEPT !.children = Tail(@)], "Value", <<m.children[1]>>)

\* next_value_seed, its arm `Value::Unknown => Err(DeError::KeyNotRead)`
key_not_read(m) == ValueRead(m, "KeyNotRead", <<>>)

\* A variant of next_value_seed that reads the pending value and leaves
\* it in place.
next_value_seed_peeks(m, how) ==
    LET pending == m.pending_value
    IN  CASE pending.k = "Attribute" -> ValueRead(m, "Value", <<>>)
          [] pending.k = "Text" -> ValueRead(m, "Value", <<pending.node>>)
          [] pending.k = "Value" ->
                 CASE how = "seq" -> value_deserialize_seq(m, pending.node)
                   [] how = "map" -> ValueRead(m, "Panic", <<>>)
                   [] OTHER -> ValueRead(m, "Value", <<pending.node>>)
          [] pending.k = "Field" ->
                 CASE how = "seq" -> field_deserialize_seq(m, pending.node)
                   [] how = "map" -> ValueRead(m, "Panic", <<>>)
                   [] OTHER -> ValueRead(m, "Value", <<pending.node>>)
          [] OTHER -> key_not_read(m)

\* MapAccess::next_value_seed
next_value_seed(m, how) ==
    LET pending == m.pending_value
        taken == [m EXCEPT !.pending_value = Unknown]
    IN  CASE pending.k = "Attribute" -> ValueRead(taken, "Value", <<>>)
          [] pending.k = "Text" -> ValueRead(taken, "Value", <<pending.node>>)
          [] pending.k = "Value" ->
                 CASE how = "seq" -> value_deserialize_seq(taken, pending.node)
                   [] how = "map" -> ValueRead(taken, "Panic", <<>>)
                   [] OTHER -> ValueRead(taken, "Value", <<pending.node>>)
          [] pending.k = "Field" ->
                 CASE how = "seq" -> field_deserialize_seq(taken, pending.node)
                   [] how = "map" -> ValueRead(taken, "Panic", <<>>)
                   [] OTHER -> ValueRead(taken, "Value", <<pending.node>>)
          [] OTHER -> key_not_read(taken)

(***************************************************************************)
(* The caller of the map access: a serde visitor that may call             *)
(* next_key_seed and next_value_seed in any order.  debug_assert_eq! is    *)
(* compiled in or out with the build: with a value still pending,          *)
(* next_key_seed either panics or goes on.                                 *)
(***************************************************************************)
CanAccess == answer # "Panic"

\* The key read last, for the history of the values.
LastKey == IF keys = <<>> THEN Key("", "") ELSE Last(keys)

NextKeySeed ==
    /\ CanAccess
    /\ \E r \in {next_key_seed(map)} :
           /\ map' = r.m
           /\ keys' = IF r.key = None THEN keys ELSE Append(keys, r.key[1])
           /\ answer' = IF r.key = None THEN "None" ELSE "Key"
    /\ UNCHANGED <<values, nodes, bvars, fvars, avars, evars, rvars>>

NextKeySeedAssert ==
    /\ CanAccess
    /\ map.pending_value # Unknown
    /\ answer' = "Panic"
    /\ UNCHANGED <<map, keys, values, nodes, bvars, fvars, avars, evars, rvars>>

NextValueSeed ==
    /\ CanAccess
    /\ \E how \in Hows : \E r \in {next_value_seed(map, how)} :
           /\ map' = r.m
           /\ values' = IF r.k = "Value"
                         THEN Append(values, Val(LastKey, asked(map, how), r.items))
                         ELSE values
           /\ answer' = r.k
    /\ UNCHANGED <<keys, nodes, bvars, fvars, avars, evars, rvars>>

Accesses ==
    {MapAccess(a, c, f) : a \in AttrLists, c \in ChildLists, f \in SUBSET FieldNames}

InitMap ==
    /\ InitBuilder
    /\ NoCall
    /\ NoReader
    /\ NoEnum
    /\ NoRest
    /\ map \in Accesses
    /\ keys = <<>>
    /\ values = <<>>
    /\ nodes = map.children
    /\ answer = ""

NextMap == NextKeySeed \/ NextKeySeedAssert \/ NextValueSeed

SpecMap == InitMap /\ [][NextMap]_vars


(***************************************************************************)
(* The claims about the map access                                         *)
(***************************************************************************)

\* C12: the map access yields every attribute as a key, prefixed with "@"
\* and in document order, before any key of a child; once a key of a child
\* was yielded, no attribute key follows.
C12_AttributesBeforeChildren ==
    \A i \in 1..Len(keys) :
        IF i <= Len(map.attributes)
        THEN keys[i] = Key("@", map.attributes[i])
        ELSE keys[i].k # "@"

\* Both attributes were yielded and then the key of a child element.
C12_Witness ==
    /\ Len(map.attributes) = 2
    /\ Len(keys) = 3
    /\ keys[3].k = "elem"

\* C13: next_value_seed called when no key is pending (no next_key_seed
\* before it, or a second call after one key) answers KeyNotRead and
\* consumes no attribute and no child.
C13_Step ==
    (NextValueSeed /\ map.pending_value = Unknown) =>
        /\ answer' = "KeyNotRead"
        /\ map' = map
        /\ values' = values

C13_ValueWithoutKeyIsKeyNotRead == [][C13_Step]_vars

\* One key was read, its value was read, and the value was asked for once
\* more while there are children left to read.
C13_Witness ==
    /\ answer = "KeyNotRead"
    /\ Len(keys) = 1
    /\ Len(values) = 1
    /\ map.children # <<>>

\* C14: with a $value field, a child element whose name is not a declared
\* field is delivered under the key $value, and a child element whose name
\* is a declared field is delivered under its own name.
C14_ValueFieldTakesUndeclared ==
    has_value_field(map) =>
        \A i \in 1..Len(values) : \A j \in 1..Len(values[i].items) :
            LET e == values[i].items[j]
            IN  e.k = "Element" =>
                    values[i].key = IF e.tag \in map.fields
                                    THEN Key("elem", e.tag)
                                    ELSE Key("$value", "")

\* An undeclared element was delivered under $value and a declared one
\* under its own name.
C14_Witness ==
    /\ has_value_field(map)
    /\ \E i, j \in 1..Len(values) :
           /\ values[i].key = Key("$value", "")
           /\ values[i].items = <<NodeElement(ElementFrom("b"))>>
           /\ values[j].key = Key("elem", "a")
           /\ values[j].items = <<NodeElement(ElementFrom("a"))>>

\* The visitor kept to the protocol of MapAccess: every key but the last
\* one was followed by a read of its value.
KeysThenValues ==
    /\ Len(keys) - Len(values) \in {0, 1}
    /\ \A i \in 1..Len(values) : values[i].key = keys[i]

\* C15: with a $text field, the direct text content of the element, also
\* when child elements stand between its parts, is delivered as one key
\* with one value.
C15_OneTextKey ==
    (has_text_field(map) /\ KeysThenValues) =>
        Cardinality({i \in 1..Len(keys) : keys[i].k = "$text"}) <= 1

\* C16: a field read as a sequence takes as its items the pending element
\* and every later child element of the same name, in document order,
\* also the ones other children separate, and no other child; the others
\* stay behind in their order.
SameName(node, e) == node.k = "Element" /\ node.tag = e.tag

C16_Step ==
    (NextValueSeed /\ map.pending_value.k = "Field"
         /\ values' # values /\ Last(values').how = "seq") =>
        LET e == map.pending_value.node
            Same(node) == SameName(node, e)
            Other(node) == ~SameName(node, e)
        IN  /\ Last(values').items = <<e>> \o SelectSeq(map.children, Same)
            /\ map'.children = SelectSeq(map.children, Other)

C16_SequenceTakesSameName == [][C16_Step]_vars

\* The children a, b, a were read as the sequence a, a and b stays behind.
C16_Witness ==
    /\ Len(nodes) = 3
    /\ SameName(nodes[1], ElementFrom("a"))
    /\ SameName(nodes[2], ElementFrom("b"))
    /\ SameName(nodes[3], ElementFrom("a"))
    /\ values = <<Val(Key("elem", "a"), "seq", <<nodes[1], nodes[3]>>)>>
    /\ map.children = <<nodes[2]>>

(***************************************************************************)
(* de/var.rs and de/dom.rs: the two enum accesses.  The streaming one      *)
(* looks at the event the deserializer has ahead; Deserializer::peek is    *)
(* not in src/ and is modelled after the specification: it shows the next  *)
(* of the events Start, End, Text, and Eof once the input is at its end.   *)
(* The access over the DOM is an element.                                  *)
(***************************************************************************)
MaxEvents == 3

DeEvents == {Ev("Start", "a", <<>>), Ev("Start", "b", <<>>), Ev("Text", "", <<"a">>),
             Ev("End", "a", <<>>), EvEof}

\* The events ahead when an enum is asked for: never an End, by the
\* reader's guarantee that variant_seed relies on.
DeStreams ==
    {d \in UNION {[1..n -> DeEvents] : n \in 1..MaxEvents} : d[1].k # "End"}

EnumElements == {ElementFrom("a"), ElementFrom("b"),
                 Element("a", <<NodeText(<<"a">>)>>)}

peek(d) == IF d = <<>> THEN EvEof ELSE d[1]

Variant(k, name, is_text, by) ==
    [k |-> k, name |-> name, is_text |-> is_text, by |-> by]
NoVariant == Variant("", "", FALSE, "")

\* A variant of variant_seed that hands the seed the marker $value for a
\* text.
variant_seed_value_marker(ev) ==
    CASE ev.k = "Start" -> Variant("Ok", ev.n, FALSE, "de")
      [] ev.k = "Text" -> Variant("Ok", "$value", TRUE, "de")
      [] ev.k = "End" -> Variant("Panic", "", FALSE, "de")
      [] OTHER -> Variant("UnexpectedEof", "", FALSE, "de")

\* de::EnumAccess::variant_seed for EnumAccess, on the event peeked
variant_seed(ev) ==
    CASE ev.k = "Start" -> Variant("Ok", ev.n, FALSE, "de")
      [] ev.k = "Text" -> Variant("Ok", "$text", TRUE, "de")
      [] ev.k = "End" -> Variant("Panic", "", FALSE, "de")
      [] OTHER -> Variant("UnexpectedEof", "", FALSE, "de")

\* EnumAccess::variant_seed for Element
element_variant_seed(e) == Variant("Ok", e.tag, FALSE, "dom")

VariantSeed ==
    /\ variant = NoVariant
    /\ variant' = variant_seed(peek(de))
    /\ UNCHANGED <<de, enum_access, bvars, fvars, avars, dvars, rvars>>

ElementVariantSeed ==
    /\ variant = NoVariant
    /\ variant' = element_variant_seed(enum_access)
    /\ UNCHANGED <<de, enum_access, bvars, fvars, avars, dvars, rvars>>

InitEnum ==
    /\ InitBuilder
    /\ NoCall
    /\ NoReader
    /\ NoMap
    /\ NoRest
    /\ de \in DeStreams
    /\ enum_access \in EnumElements
    /\ variant = NoVariant

NextEnum == VariantSeed \/ ElementVariantSeed

SpecEnum == InitEnum /\ [][NextEnum]_vars

RECURSIVE reads_all(_, _, _)
reads_all(d, i, stack) ==
    \/ i > Len(d)
    \/ LET rd == read_event(SubSeq(d, 1, i - 1), stack, d[i])
       IN  ~rd.err /\ reads_all(d, i + 1, rd.opened)

streaming_reads(d) ==
    /\ reads_all(d, 1, <<>>)
    /\ TopElements(d) = 1
    /\ ~TopText(d)
    /\ \A i \in 1..Len(d) : d[i].k # "Malformed"
    /\ \A i \in 1..Len(d) : d[i].k = "Eof" => Depth(SubSeq(d, 1, i - 1)) = 0

\* C18: whenever the streaming deserializer gives a value for a document,
\* the path over the DOM gives it too: Element::from_str returns the
\* element the value is then deserialized from.
C18_DomGivesWhatStreamingGives ==
    (pc = "done" /\ streaming_reads(doc)) => out.k = "Ok"

(***************************************************************************)
(* The claims about the trimming of text by the async reader               *)
(***************************************************************************)
\* The text events among the events returned so far.
EmittedText ==
    {i \in 1..Len(emitted) : emitted[i].k \in {"Text", "StartText"}}

\* C19: with trim_text_start or trim_text_end set, no text event the reader
\* returns has an empty content.
C19_NoEmptyText ==
    (config.trim_text_start \/ config.trim_text_end) =>
        \A i \in EmittedText : emitted[i].s # <<>>

\* With trim_text_end set, a text of whitespace only was read after a tag
\* and returned as a Text event.
C19_Witness ==
    /\ config.trim_text_end
    /\ \E i \in EmittedText : emitted[i].k = "Text" /\ emitted[i].s = <<"s">>

\* C20: with trim_text_end set, no Text event the reader returns ends with
\* a whitespace byte.
C20_NoTrailingWhitespace ==
    config.trim_text_end =>
        \A i \in 1..Len(emitted) :
            (emitted[i].k = "Text" /\ emitted[i].s # <<>>) =>
                ~is_whitespace(Last(emitted[i].s))

(***************************************************************************)
(* The claims about the reader's stack of open elements                    *)
(***************************************************************************)
\* The number of events of kind k among the events returned so far.
Emitted(k) == Cardinality({i \in 1..Len(emitted) : emitted[i].k = k})

MaxTags == 3

Prefixes == {"", "p"}
Namespaces == {"u1", "u2"}

Decl(prefix, ns) == [prefix |-> prefix, ns |-> ns]

\* The declarations of a start tag, in the order of its attributes.
DeclLists == {<<>>, <<Decl("", "u1")>>, <<Decl("", "u2")>>, <<Decl("p", "u1")>>,
              <<Decl("p", "u2")>>, <<Decl("", "u1"), Decl("p", "u2")>>}

\* A tag or a text of the document: the prefix of the element's name ("" when
\* it has none) and the declarations.
Tag(k, prefix, decls) == [k |-> k, prefix |-> prefix, decls |-> decls]
NsTokens ==
    {Tag(k, q, ds) : k \in {"Start", "Empty"}, q \in Prefixes, ds \in DeclLists}
        \cup {Tag("End", "", <<>>), Tag("Text", "", <<>>)}

\* ResolveResult
Bound(ns) == [k |-> "Bound", v |-> ns]
Unbound == [k |-> "Unbound", v |-> ""]
UnknownPrefix(prefix) == [k |-> "Unknown", v |-> prefix]

Entry(prefix, ns, level) == [prefix |-> prefix, ns |-> ns, level |-> level]

\* NamespaceResolver::push: the element is entered and its declarations are
\* pushed with its nesting level.
RECURSIVE push_decls(_, _, _)
push_decls(bindings, decls, level) ==
    IF decls = <<>> THEN bindings
    ELSE push_decls(Append(bindings, Entry(decls[1].prefix, decls[1].ns, level)),
                    Tail(decls), level)

push(rs, decls) ==
    [bindings |-> push_decls(rs.bindings, decls, rs.nesting_level + 1),
     nesting_level |-> rs.nesting_level + 1]

\* The bindings of the levels up to level.
RECURSIVE truncate(_, _)
truncate(bindings, level) ==
    IF bindings = <<>> \/ Last(bindings).level <= level THEN bindings
    ELSE truncate(Front(bindings), level)

\* A variant of pop that leaves the bindings of the element behind.
pop_level_only(rs) == [rs EXCEPT !.nesting_level = @ - 1]

\* NamespaceResolver::pop: the element is left and its bindings are dropped.
pop(rs) ==
    [bindings |-> truncate(rs.bindings, rs.nesting_level - 1),
     nesting_level |-> rs.nesting_level - 1]

\* The binding of prefix that is in force: the topmost one of the stack.
RECURSIVE find(_, _)
find(bindings, prefix) ==
    IF bindings = <<>> THEN None
    ELSE IF Last(bindings).prefix = prefix THEN Some(Last(bindings))
    ELSE find(Front(bindings), prefix)

\* NamespaceResolver::resolve_element
resolve_element(rs, prefix) ==
    LET b == find(rs.bindings, prefix)
    IN  IF b # None THEN Bound(b[1].ns)
        ELSE IF prefix = "" THEN Unbound
        ELSE UnknownPrefix(prefix)

\* A variant of bindings_iter that yields every entry of the stack.
bindings_all(bindings) == bindings

\* NamespaceResolver::bindings: the entries of the stack, but for the ones
\* that a later entry of the same prefix shadows.
RECURSIVE bindings_iter(_)
bindings_iter(bindings) ==
    IF bindings = <<>> THEN <<>>
    ELSE IF \E j \in 2..Len(bindings) : bindings[j].prefix = bindings[1].prefix
    THEN bindings_iter(Tail(bindings))
    ELSE <<bindings[1]>> \o bindings_iter(Tail(bindings))

\* The event the wrapped reader makes of the token tok, and the reader after
\* it; the End of an expanded empty element takes no token.
NsRead(rd, ev) == [rd |-> rd, ev |-> ev]

ns_read_event(rd, tok) ==
    CASE rd.empty ->
             NsRead([rd EXCEPT !.opened = Front(@), !.empty = FALSE],
                    Tag("End", Last(rd.opened), <<>>))
      [] tok.k = "Start" ->
             NsRead([rd EXCEPT !.opened = Append(@, tok.prefix)], tok)
      [] tok.k = "Empty" ->
             IF rd.expand_empty_elements
             THEN NsRead([rd EXCEPT !.opened = Append(@, tok.prefix), !.empty = TRUE],
                         Tag("Start", tok.prefix, tok.decls))
             ELSE NsRead(rd, tok)
      [] tok.k = "End" ->
             NsRead([rd EXCEPT !.opened = Front(@)], Tag("End", Last(rd.opened), <<>>))
      [] OTHER -> NsRead(rd, tok)

\* NsReader::pop: the scope that the last event left pending is left.
ns_pop(rs, pending) == IF pending THEN pop(rs) ELSE rs

\* NsReader::process_event: the resolver and pending_pop after the event.
process_event(rs, ev) ==
    CASE ev.k = "Start" -> [rs |-> push(rs, ev.decls), pending |-> FALSE]
      [] ev.k = "Empty" -> [rs |-> push(rs, ev.decls), pending |-> TRUE]
      [] ev.k = "End" -> [rs |-> rs, pending |-> TRUE]
      [] OTHER -> [rs |-> rs, pending |-> FALSE]

\* NsReader::resolve_event
resolve_event(rs, ev) ==
    IF ev.k \in {"Start", "Empty", "End"} THEN resolve_element(rs, ev.prefix)
    ELSE Unbound

Resolved(ev, result, bindings) ==
    [k |-> ev.k, prefix |-> ev.prefix, decls |-> ev.decls, res |-> result,
     bindings |-> bindings]

\* NsReader::read_resolved_event, the wrapped reader reading tok of the
\* document d.
ReadResolved(tok, d) ==
    \E read \in {ns_read_event(ns_reader, tok)} :
    \E after \in {process_event(ns_pop(resolver, pending_pop), read.ev)} :
        /\ ns_state' =
               Some([doc |-> d,
                reader |-> read.rd,
                resolver |-> after.rs,
                pending_pop |-> after.pending,
                resolved |-> Append(resolved,
                                    Resolved(read.ev, resolve_event(after.rs, read.ev),
                                             bindings_iter(after.rs.bindings)))])
        /\ UNCHANGED but_nvars

\* The tokens that can follow in a well-formed document.
CanFollow(tok) == tok.k = "End" => ns_reader.opened # <<>>

ReadResolvedEvent ==
    /\ ~ns_reader.empty
    /\ Len(ns_doc) < MaxTags
    /\ \E tok \in NsTokens :
           /\ CanFollow(tok)
           /\ ReadResolved(tok, Append(ns_doc, tok))

\* The call that returns the End of an expanded empty element.
ReadResolvedEnd ==
    /\ ns_reader.empty
    /\ \E tok \in {Last(ns_doc)} : ReadResolved(tok, ns_doc)

Idle == InitBuilder /\ NoCall /\ NoReader /\ NoMap /\ NoEnum

InitNs ==
    /\ Idle /\ NoSkip /\ NoEnt /\ NoEscape /\ NoCData /\ NoValidation /\ NoStart
    /\ \E rd \in [opened : {<<>>}, empty : {FALSE}, expand_empty_elements : BOOLEAN] :
           ns_state = Some([doc |-> <<>>,
                       reader |-> rd,
                       resolver |-> [bindings |-> <<>>, nesting_level |-> 0],
                       pending_pop |-> FALSE,
                       resolved |-> <<>>])

NextNs == ReadResolvedEvent \/ ReadResolvedEnd

SpecNs == InitNs /\ [][NextNs]_vars

(***************************************************************************)
(* The claims about the namespace reader                                   *)
(***************************************************************************)
\* A scope: the namespace of each prefix, "" for none.
NoScope == [q \in Prefixes |-> ""]

\* The scope of an element with the declarations decls inside outer.
RECURSIVE Declare(_, _)
Declare(outer, decls) ==
    IF decls = <<>> THEN outer
    ELSE Declare([outer EXCEPT ![decls[1].prefix] = decls[1].ns], Tail(decls))

Lookup(scope, prefix) ==
    IF scope[prefix] # "" THEN Bound(scope[prefix])
    ELSE IF prefix = "" THEN Unbound
    ELSE UnknownPrefix(prefix)

\* The events from position i on are resolved in the scope of the element
\* they belong to; scopes are the scopes of the open elements.
RECURSIVE ScopedFrom(_, _, _)
ScopedFrom(events, i, scopes) ==
    \/ i > Len(events)
    \/ LET e == events[i]
           inner == Declare(Last(scopes), e.decls)
       IN  CASE e.k = "Start" ->
                    /\ e.res = Lookup(inner, e.prefix)
                    /\ ScopedFrom(events, i + 1, Append(scopes, inner))
             [] e.k = "Empty" ->
                    /\ e.res = Lookup(inner, e.prefix)
                    /\ ScopedFrom(events, i + 1, scopes)
             [] e.k = "End" ->
                    /\ e.res = Lookup(Last(scopes), e.prefix)
                    /\ ScopedFrom(events, i + 1, Front(scopes))
             [] OTHER ->
                    /\ e.res = Unbound
                    /\ ScopedFrom(events, i + 1, scopes)

\* C22: every Start, Empty and End event is resolved with the bindings of
\* its own element: an inner declaration of a prefix, or of the default
\* namespace, holds from the inner Start to its End, also the End of an
\* expanded empty element, and the outer one holds again right after.
C22_InnerBindingThenOuter == ScopedFrom(resolved, 1, <<NoScope>>)

\* The default namespace u1 of the outer element, u2 of the expanded empty
\* element inside it and of its End, and u1 again for the outer End.
C22_Witness ==
    /\ ns_reader.expand_empty_elements
    /\ Len(resolved) = 4
    /\ resolved[1].k = "Start" /\ resolved[1].res = Bound("u1")
    /\ resolved[2].k = "Start" /\ resolved[2].res = Bound("u2")
    /\ resolved[3].k = "End" /\ resolved[3].res = Bound("u2")
    /\ resolved[4].k = "End" /\ resolved[4].res = Bound("u1")
    /\ \A i \in 1..4 : resolved[i].prefix = ""

\* C23: the iterator over the bindings yields one entry for each prefix
\* that is bound, the one declared last, and no entry that a later one
\* shadows.
C23_OneBindingPerPrefix ==
    LET yielded == bindings_iter(resolver.bindings)
    IN  /\ \A i, j \in 1..Len(yielded) :
               yielded[i].prefix = yielded[j].prefix => i = j
        /\ \A i \in 1..Len(yielded) :
               find(resolver.bindings, yielded[i].prefix) = Some(yielded[i])
        /\ \A i \in 1..Len(resolver.bindings) :
               \E j \in 1..Len(yielded) : yielded[j].prefix = resolver.bindings[i].prefix

\* The default namespace is declared twice, the inner declaration still in
\* scope, and the iterator yields the inner one only.
C23_Witness ==
    /\ Len(resolver.bindings) = 2
    /\ resolver.bindings[1] = Entry("", "u1", 1)
    /\ resolver.bindings[2] = Entry("", "u2", 2)
    /\ bindings_iter(resolver.bindings) = <<Entry("", "u2", 2)>>

(***************************************************************************)
(* Reader::read_to_end and Reader::read_text                               *)
(*                                                                         *)
(* The document is a sequence of tags and texts; a position is the number  *)
(* of them consumed, a span a pair of positions, and the text of a span    *)
(* the tags and texts between them.                                        *)
(***************************************************************************)
MaxSkip == 5

SkipNames == {"root", "tag"}

SkipTokens ==
    {[k |-> k, name |-> n] : k \in {"Start", "Empty", "End"}, n \in SkipNames}
        \cup {[k |-> "Text", name |-> ""]}

SkipDocs == UNION {[1..n -> SkipTokens] : n \in 0..MaxSkip}

\* What a call returns: an event, a span, a text, or an error.
SkipResult(ok, k, name, from, to, content) ==
    [ok |-> ok, k |-> k, name |-> name, from |-> from, to |-> to, text |-> content]

SkipEvent(k, name) == SkipResult(TRUE, k, name, 0, 0, <<>>)

SkipErr(k, name) == SkipResult(FALSE, k, name, 0, 0, <<>>)

SkipRead(rd, result) == [rd |-> rd, result |-> result]

\* Reader::read_event on the document d: a Start opens its element, an End
\* closes the innermost open element and has its name.
skip_read_event(rd, d) ==
    IF rd.pos = Len(d)
    THEN IF rd.opened_starts = <<>>
         THEN SkipRead(rd, SkipEvent("Eof", ""))
         ELSE SkipRead(rd, SkipErr("MissingEndTag", Last(rd.opened_starts)))
    ELSE LET tok  == d[rd.pos + 1]
             next == [rd EXCEPT !.pos = @ + 1]
         IN  CASE tok.k = "Start" ->
                      SkipRead([next EXCEPT !.opened_starts = Append(@, tok.name)],
                               SkipEvent("Start", tok.name))
               [] tok.k = "End" ->
                      IF rd.opened_starts = <<>>
                      THEN SkipRead(next, SkipErr("UnmatchedEndTag", tok.name))
                      ELSE IF Last(rd.opened_starts) # tok.name
                      THEN SkipRead(next, SkipErr("MismatchedEndTag", tok.name))
                      ELSE SkipRead([next EXCEPT !.opened_starts = Front(@)],
                                    SkipEvent("End", tok.name))
               [] OTHER -> SkipRead(next, SkipEvent(tok.k, tok.name))

\* A variant of nested that counts no element.
nested_never(ev, name) == FALSE

\* The event opens an element of the name inside the one that is skipped.
nested(ev, name) == ev.k = "Start" /\ ev.name = name

\* The loop of read_to_end: depth is the number of open elements of the
\* name inside the one that is skipped; from is where the call began.
RECURSIVE read_to_end_loop(_, _, _, _, _)
read_to_end_loop(rd, d, name, depth, from) ==
    LET read == skip_read_event(rd, d)
        ev   == read.result
    IN  IF ~ev.ok THEN read
        ELSE IF nested(ev, name)
        THEN read_to_end_loop(read.rd, d, name, depth + 1, from)
        ELSE IF ev.k = "End" /\ ev.name = name
        THEN IF depth = 0
             THEN SkipRead(read.rd,
                           SkipResult(TRUE, "Span", name, from, rd.pos, <<>>))
             ELSE read_to_end_loop(read.rd, d, name, depth - 1, from)
        ELSE IF ev.k = "Eof"
        THEN SkipRead(read.rd, SkipErr("MissingEndTag", name))
        ELSE read_to_end_loop(read.rd, d, name, depth, from)

read_to_end(rd, d, name) == read_to_end_loop(rd, d, name, 0, rd.pos)

\* Reader::read_text: the input of the span read_to_end returns.
read_text(rd, d, name) ==
    LET read == read_to_end(rd, d, name)
        span == read.result
    IN  IF ~span.ok THEN read
        ELSE SkipRead(read.rd,
                      SkipResult(TRUE, "Text", name, span.from, span.to,
                                 SubSeq(d, span.from + 1, span.to)))

SkipCall(op, name, read) ==
    /\ skip_state' =
           Some([doc |-> skip_doc,
            reader |-> read.rd,
            log |-> Append(skip_log, [op |-> op, name |-> name,
                                      at |-> skip_reader.pos, result |-> read.result])])
    /\ UNCHANGED but_svars

\* The reader is read until Eof or an error.
SkipCanCall ==
    skip_log # <<>> => Last(skip_log).result.ok /\ Last(skip_log).result.k # "Eof"

SkipReadEvent ==
    /\ SkipCanCall
    /\ \E read \in {skip_read_event(skip_reader, skip_doc)} :
           SkipCall("read_event", "", read)

SkipReadToEnd ==
    /\ SkipCanCall
    /\ \E name \in SkipNames :
       \E read \in {read_to_end(skip_reader, skip_doc, name)} :
           SkipCall("read_to_end", name, read)

SkipReadText ==
    /\ SkipCanCall
    /\ \E name \in SkipNames :
       \E read \in {read_text(skip_reader, skip_doc, name)} :
           SkipCall("read_text", name, read)

InitSkip ==
    /\ Idle /\ NoNs /\ NoEnt /\ NoEscape /\ NoCData /\ NoValidation /\ NoStart
    /\ \E d \in SkipDocs :
           skip_state = Some([doc |-> d, reader |-> [pos |-> 0, opened_starts |-> <<>>],
                         log |-> <<>>])

NextSkip == SkipReadEvent \/ SkipReadToEnd \/ SkipReadText

SpecSkip == InitSkip /\ [][NextSkip]_vars

\* The number of the tags of a kind and name among d[from], ..., d[to].
CountTags(d, from, to, k, name) ==
    Cardinality({i \in from..to : d[i].k = k /\ d[i].name = name})

\* d[e] is the end tag of the element of the name that is open after the
\* first p tags and texts of d: the first end tag of the name that has no
\* start tag of its own after p.
Closes(d, p, name, e) ==
    /\ e \in (p + 1)..Len(d)
    /\ d[e].k = "End" /\ d[e].name = name
    /\ CountTags(d, p + 1, e - 1, "Start", name) = CountTags(d, p + 1, e - 1, "End", name)
    /\ \A j \in (p + 1)..(e - 1) :
           d[j].k = "End" /\ d[j].name = name =>
               CountTags(d, p + 1, j - 1, "Start", name)
                   > CountTags(d, p + 1, j - 1, "End", name)

\* C24: a read_to_end or read_text that succeeds ends with the end tag
\* that closes the element of the name open at the call, elements of the
\* same name inside counted; the span, or text, is the input from the
\* position of the call to that end tag, and the next call reads what
\* follows the end tag.
C24_SkipsToClosingTag ==
    \A i \in 1..Len(skip_log) :
        LET c == skip_log[i]
        IN  c.op \in {"read_to_end", "read_text"} /\ c.result.ok =>
                /\ c.result.from = c.at
                /\ Closes(skip_doc, c.at, c.name, c.result.to + 1)
                /\ c.op = "read_text" =>
                       c.result.text = SubSeq(skip_doc, c.at + 1, c.result.to)
                /\ i < Len(skip_log) =>
                       /\ skip_log[i + 1].at = c.result.to + 1
                       /\ skip_log[i + 1].op = "read_event" /\ skip_log[i + 1].result.ok =>
                              IF c.result.to + 1 = Len(skip_doc)
                              THEN skip_log[i + 1].result.k = "Eof"
                              ELSE /\ skip_log[i + 1].result.k = skip_doc[c.result.to + 2].k
                                   /\ skip_log[i + 1].result.name = skip_doc[c.result.to + 2].name

\* After the Start of root, read_text("root") passes an element root
\* inside and returns it as the text, and the next event is the text
\* after the end tag.
C24_Witness ==
    /\ Len(skip_log) = 3
    /\ skip_log[1].op = "read_event" /\ skip_log[1].result.k = "Start"
    /\ skip_log[2].op = "read_text" /\ skip_log[2].name = "root"
    /\ skip_log[2].result.ok
    /\ skip_log[2].result.text
           = <<[k |-> "Start", name |-> "root"], [k |-> "End", name |-> "root"]>>
    /\ skip_log[3].op = "read_event" /\ skip_log[3].result.k = "Text"

(***************************************************************************)
(* The entity-aware reader                                                 *)
(*                                                                         *)
(* A document, and a replacement text, is a sequence of texts and general  *)
(* references; the parser over it gives them one by one and then Eof.      *)
(***************************************************************************)
MaxEntDoc == 3

\* The limit of the depth of the stack of sub-readers.
EntDepthLimit == 2

EntNames == {"e1", "e2"}

EntText(v) == [k |-> "Text", v |-> v]

GeneralRef(name) == [k |-> "GeneralRef", v |-> name]

EntEof == [k |-> "Eof", v |-> ""]

EntErr(e) == [k |-> "Err", v |-> e]

EntTokens ==
    {EntText("a"), EntText("b"), GeneralRef("e1"), GeneralRef("e2"), GeneralRef("#")}

EntDocs == UNION {[1..n -> EntTokens] : n \in 0..MaxEntDoc}

\* The replacement texts of the entities.
Replacements ==
    {<<>>,
     <<EntText("c")>>,
     <<EntText("c"), GeneralRef("e1"), EntText("d")>>,
     <<GeneralRef("e2"), EntText("d")>>,
     <<GeneralRef("#"), GeneralRef("e2")>>}

\* What resolve(name) gives: Some(Internal(replacement text)), or None.
EntTables == [EntNames -> {Some(r) : r \in Replacements} \cup {None}]

SubReader(d) == [d |-> d, pos |-> 0]

\* The parser over d gives its next event.
ent_read_event(rd) ==
    IF rd.pos = Len(rd.d) THEN [rd |-> rd, ev |-> EntEof]
    ELSE [rd |-> [rd EXCEPT !.pos = @ + 1], ev |-> rd.d[rd.pos + 1]]

\* A variant of push_reader that puts the sub-reader under the others.
push_reader_under(stack, rd) == <<rd>> \o stack

\* The sub-reader over a replacement text is pushed on the stack.
push_reader(stack, rd) == Append(stack, rd)

Pulled(main, stack, ev) == [main |-> main, stack |-> stack, ev |-> ev]

\* One pull: from the top sub-reader, or from the main parser; the Eof of
\* a sub-reader pops it, a reference to a character is given as a Text, a
\* reference to an entity pushes a sub-reader over its replacement text.
RECURSIVE pull(_, _, _)
pull(main, stack, table) ==
    LET read == IF stack # <<>> THEN ent_read_event(Last(stack))
                ELSE ent_read_event(main)
        main1  == IF stack # <<>> THEN main ELSE read.rd
        stack1 == IF stack # <<>> THEN Append(Front(stack), read.rd) ELSE stack
        ev     == read.ev
    IN  IF ev.k = "Eof" /\ stack # <<>>
        THEN pull(main, Front(stack), table)
        ELSE IF ev.k = "GeneralRef"
        THEN IF ev.v = "#"
             THEN Pulled(main1, stack1, EntText("#"))
             ELSE IF table[ev.v] = None
             THEN Pulled(main1, stack1, EntErr("UnrecognizedGeneralEntity"))
             ELSE IF Len(stack1) >= EntDepthLimit
             THEN Pulled(main1, stack1, EntErr("TooManyNestedEntities"))
             ELSE pull(main1, push_reader(stack1, SubReader(table[ev.v][1])), table)
        ELSE Pulled(main1, stack1, ev)

\* The reader is read until Eof or an error.
Pull ==
    /\ ent_out # <<>> => Last(ent_out).k \notin {"Eof", "Err"}
    /\ \E r \in {pull(ent_main, ent_stack, ent_table)} :
           ent_state' = Some([table |-> ent_table, main |-> r.main, stack |-> r.stack,
                         out |-> Append(ent_out, r.ev)])
    /\ UNCHANGED but_gvars

InitEnt ==
    /\ Idle /\ NoNs /\ NoSkip /\ NoEscape /\ NoCData /\ NoValidation /\ NoStart
    /\ \E table \in EntTables :
       \E d \in EntDocs :
           ent_state = Some([table |-> table, main |-> SubReader(d),
                        stack |-> <<>>, out |-> <<>>])

NextEnt == Pull

SpecEnt == InitEnt /\ [][NextEnt]_vars

\* The document d with every reference replaced by what it stands for, the
\* replacement text with its own references replaced first, up to the
\* first error.
RECURSIVE Expand(_, _, _)
Expand(d, table, depth) ==
    IF d = <<>> THEN <<>>
    ELSE LET h == Head(d)
             first ==
                 IF h.k # "GeneralRef" THEN <<h>>
                 ELSE IF h.v = "#" THEN <<EntText("#")>>
                 ELSE IF table[h.v] = None
                 THEN <<EntErr("UnrecognizedGeneralEntity")>>
                 ELSE IF depth >= EntDepthLimit
                 THEN <<EntErr("TooManyNestedEntities")>>
                 ELSE Expand(table[h.v][1], table, depth + 1)
         IN  IF first # <<>> /\ Last(first).k = "Err" THEN first
             ELSE first \o Expand(Tail(d), table, depth)

\* C25: the events of an expansion come in the place of the reference,
\* in the order of the replacement text, the references inside it
\* expanded first: after the events before the reference and before the
\* events after it; the Eof of a sub-reader is not among them.
C25_ExpansionInPlace ==
    LET full  == Expand(ent_main.d, ent_table, 0)
        whole == IF full # <<>> /\ Last(full).k = "Err" THEN full
                 ELSE Append(full, EntEof)
    IN  /\ Len(ent_out) <= Len(whole)
        /\ ent_out = SubSeq(whole, 1, Len(ent_out))

\* e1 is referenced between two texts, and e2 at the start of e1.
C25_Witness ==
    /\ ent_main.d = <<EntText("a"), GeneralRef("e1"), EntText("b")>>
    /\ ent_table["e1"] = Some(<<GeneralRef("e2"), EntText("d")>>)
    /\ ent_table["e2"] = Some(<<EntText("c")>>)
    /\ ent_out = <<EntText("a"), EntText("c"), EntText("d"), EntText("b"), EntEof>>

(***************************************************************************)
(* escape and unescape (escape.rs)                                         *)
(*                                                                         *)
(* A character is its code point, a string the sequence of its             *)
(* characters.                                                             *)
(***************************************************************************)
MaxRaw == 4
MaxHexDigits == 7
MaxDecDigits == 8

\* The characters U+0020 to U+007E, in the order of their code points;
\* "quot" is the quotation mark, "backslash" the reverse solidus and
\* "grave" the grave accent.
Printable ==
    <<
      " ", "!", "quot", "#", "$", "%", "&", "'", "(", ")", "*", "+",
      ",", "-", ".", "/", "0", "1", "2", "3", "4", "5", "6", "7",
      "8", "9", ":", ";", "<", "=", ">", "?", "@", "A", "B", "C",
      "D", "E", "F", "G", "H", "I", "J", "K", "L", "M", "N", "O",
      "P", "Q", "R", "S", "T", "U", "V", "W", "X", "Y", "Z", "[",
      "backslash", "]", "^", "_", "grave", "a", "b", "c", "d", "e", "f", "g",
      "h", "i", "j", "k", "l", "m", "n", "o", "p", "q", "r", "s",
      "t", "u", "v", "w", "x", "y", "z", "{", "|", "}", "~"
    >>

CodeOf ==
    [c \in {Printable[i] : i \in 1..Len(Printable)} |->
        31 + CHOOSE i \in 1..Len(Printable) : Printable[i] = c]

Code(c) == CodeOf[c]

Str(s) == [i \in 1..Len(s) |-> Code(s[i])]

\* What escape replaces a character with.
replacement(b) ==
    CASE b = Code("<") -> Str(<<"&", "l", "t", ";">>)
      [] b = Code(">") -> Str(<<"&", "g", "t", ";">>)
      [] b = Code("'") -> Str(<<"&", "a", "p", "o", "s", ";">>)
      [] b = Code("&") -> Str(<<"&", "a", "m", "p", ";">>)
      [] b = Code("quot") -> Str(<<"&", "q", "u", "o", "t", ";">>)
      [] b = 9 -> Str(<<"&", "#", "9", ";">>)
      [] b = 10 -> Str(<<"&", "#", "1", "0", ";">>)
      [] b = 13 -> Str(<<"&", "#", "1", "3", ";">>)
      [] b = Code(" ") -> Str(<<"&", "#", "3", "2", ";">>)

\* _escape: the characters of escape_chars are replaced, the others kept.
RECURSIVE escape_by(_, _)
escape_by(raw, escape_chars) ==
    IF raw = <<>> THEN <<>>
    ELSE (IF Head(raw) \in escape_chars THEN replacement(Head(raw))
          ELSE <<Head(raw)>>) \o escape_by(Tail(raw), escape_chars)

\* A variant of escape that leaves "&" as it is.
escape_but_amp(raw) ==
    escape_by(raw, {Code("<"), Code(">"), Code("'"), Code("quot")})

escape(raw) ==
    escape_by(raw, {Code("<"), Code(">"), Code("&"), Code("'"), Code("quot")})

partial_escape(raw) == escape_by(raw, {Code("<"), Code(">"), Code("&")})

minimal_escape(raw) == escape_by(raw, {Code("<"), Code("&")})

resolve_xml_entity(entity) ==
    CASE entity = Str(<<"l", "t">>) -> Some(Str(<<"<">>))
      [] entity = Str(<<"g", "t">>) -> Some(Str(<<">">>))
      [] entity = Str(<<"a", "m", "p">>) -> Some(Str(<<"&">>))
      [] entity = Str(<<"a", "p", "o", "s">>) -> Some(Str(<<"'">>))
      [] entity = Str(<<"q", "u", "o", "t">>) -> Some(Str(<<"quot">>))
      [] OTHER -> None

\* Result<u32, EscapeError> and Result<char, EscapeError>.
CodeOk(code) == [ok |-> TRUE, code |-> code, e |-> ""]

CodeErr(e) == [ok |-> FALSE, code |-> 0, e |-> e]

\* A variant of too_long that takes every length.
too_long_never(digits, most) == FALSE

\* "if bytes.len() > 6", "if bytes.len() > 7".
too_long(digits, most) == Len(digits) > most

hex_digit(b) ==
    IF b \in Code("0")..Code("9") THEN Some(b - Code("0"))
    ELSE IF b \in Code("a")..Code("f") THEN Some(b - Code("a") + 10)
    ELSE IF b \in Code("A")..Code("F") THEN Some(b - Code("A") + 10)
    ELSE None

dec_digit(b) ==
    IF b \in Code("0")..Code("9") THEN Some(b - Code("0")) ELSE None

\* The loops of parse_hexadecimal and of parse_decimal.  The lengths they
\* are entered with keep code below 2^32, the width of code.
RECURSIVE hex_loop(_, _)
hex_loop(digits, code) ==
    IF digits = <<>> THEN CodeOk(code)
    ELSE IF hex_digit(Head(digits)) = None THEN CodeErr("InvalidHexadecimal")
    ELSE hex_loop(Tail(digits), code * 16 + hex_digit(Head(digits))[1])

RECURSIVE dec_loop(_, _)
dec_loop(digits, code) ==
    IF digits = <<>> THEN CodeOk(code)
    ELSE IF dec_digit(Head(digits)) = None THEN CodeErr("InvalidDecimal")
    ELSE dec_loop(Tail(digits), code * 10 + dec_digit(Head(digits))[1])

parse_hexadecimal(digits) ==
    IF too_long(digits, 6) THEN CodeErr("TooLongHexadecimal")
    ELSE hex_loop(digits, 0)

parse_decimal(digits) ==
    IF too_long(digits, 7) THEN CodeErr("TooLongDecimal")
    ELSE dec_loop(digits, 0)

\* std::char::from_u32: a code point that is no surrogate.
from_u32(code) ==
    IF code \in 55296..57343 \/ code > 1114111 THEN None ELSE Some(code)

parse_number(digits) ==
    LET parsed == IF digits # <<>> /\ Head(digits) = Code("x")
                  THEN parse_hexadecimal(Tail(digits))
                  ELSE parse_decimal(digits)
    IN  IF ~parsed.ok THEN parsed
        ELSE IF parsed.code = 0 THEN CodeErr("EntityWithNull")
        ELSE IF from_u32(parsed.code) = None THEN CodeErr("InvalidCodepoint")
        ELSE parsed

\* Result<Cow<str>, EscapeError>.
Unescaped(v) == [ok |-> TRUE, v |-> v, e |-> ""]

EscapeError(e) == [ok |-> FALSE, v |-> <<>>, e |-> e]

\* memchr2_iter(b'&', b';', bytes): the positions of "&" and ";" from i on.
RECURSIVE memchr2_iter(_, _)
memchr2_iter(raw, i) ==
    IF i > Len(raw) THEN <<>>
    ELSE (IF raw[i] \in {Code("&"), Code(";")} THEN <<i>> ELSE <<>>)
             \o memchr2_iter(raw, i + 1)

\* The loop of unescape_with: marks[m] is what iter gives next, last_end
\* the number of characters done, acc what is unescaped so far.
RECURSIVE unescape_loop(_, _, _, _, _)
unescape_loop(raw, marks, m, last_end, acc) ==
    LET amps == {j \in m..Len(marks) : raw[marks[j]] = Code("&")}
    IN  IF amps = {}
        THEN Unescaped(IF acc = None THEN raw
                       ELSE acc[1] \o SubSeq(raw, last_end + 1, Len(raw)))
        ELSE LET j     == CHOOSE a \in amps : \A b \in amps : a <= b
                 start == marks[j]
             IN  IF j < Len(marks) /\ raw[marks[j + 1]] = Code(";")
                 THEN LET stop   == marks[j + 1]
                          pat    == SubSeq(raw, start + 1, stop - 1)
                          before == (IF acc = None THEN <<>> ELSE acc[1])
                                        \o SubSeq(raw, last_end + 1, start - 1)
                      IN  IF pat # <<>> /\ Head(pat) = Code("#")
                          THEN LET codepoint == parse_number(Tail(pat))
                               IN  IF ~codepoint.ok THEN EscapeError(codepoint.e)
                                   ELSE unescape_loop(raw, marks, j + 2, stop,
                                            Some(Append(before, codepoint.code)))
                          ELSE IF resolve_xml_entity(pat) # None
                          THEN unescape_loop(raw, marks, j + 2, stop,
                                   Some(before \o resolve_xml_entity(pat)[1]))
                          ELSE EscapeError("UnrecognizedSymbol")
                 ELSE EscapeError("UnterminatedEntity")

unescape(raw) == unescape_loop(raw, memchr2_iter(raw, 1), 1, 0, None)

\* The strings given: any characters, and the character references.
RawChars ==
    {Code("&"), Code(";"), Code("<"), Code(">"), Code("'"), Code("quot"),
     Code("#"), Code("l"), Code("t"), Code("1")}

RawStrings == UNION {[1..n -> RawChars] : n \in 0..MaxRaw}

DigitChars == {Code("0"), Code("9"), Code("F")}

HexDigitStrings ==
    UNION {[1..n -> DigitChars] : n \in 0..MaxHexDigits}
        \cup {Str(<<"F", "F", "F", "E">>), Str(<<"D", "8", "0", "0">>), Str(<<"D", "F", "F", "F">>), Str(<<"E", "0", "0", "0">>), Str(<<"1", "0", "F", "F", "F", "F">>), Str(<<"1", "1", "0", "0", "0", "0">>), Str(<<"4", "1">>), Str(<<"f", "f", "f", "e">>), Str(<<"3", "c">>), Str(<<"G">>)}

DecDigitStrings ==
    UNION {[1..n -> DigitChars] : n \in 0..MaxDecDigits}
        \cup {Str(<<"6", "5", "5", "3", "4">>), Str(<<"6", "5", "5", "3", "5">>), Str(<<"5", "5", "2", "9", "6">>), Str(<<"1", "1", "1", "4", "1", "1", "1">>), Str(<<"1", "1", "1", "4", "1", "1", "2">>), Str(<<"6", "5">>), Str(<<"6", "0">>)}

CharRef(digits) == Str(<<"&", "#">>) \o digits \o Str(<<";">>)

CharRefs ==
    {CharRef(<<Code("x")>> \o d) : d \in HexDigitStrings}
        \cup {CharRef(d) : d \in DecDigitStrings}

EscapeInputs == RawStrings \cup CharRefs

\* escape(esc_in)
Escape ==
    /\ esc_pc = "given"
    /\ esc_state' = [esc_state EXCEPT ![1].text = escape(esc_in), ![1].pc = "escaped"]
    /\ UNCHANGED but_cvars

\* unescape(escape(esc_in))
UnescapeEscaped ==
    /\ esc_pc = "escaped"
    /\ esc_state' = [esc_state EXCEPT ![1].out = unescape(esc_text), ![1].pc = "round"]
    /\ UNCHANGED but_cvars

\* unescape(esc_in)
Unescape ==
    /\ esc_pc = "given"
    /\ esc_state' = [esc_state EXCEPT ![1].out = unescape(esc_in), ![1].pc = "unescaped"]
    /\ UNCHANGED but_cvars

InitEscape ==
    /\ Idle /\ NoNs /\ NoSkip /\ NoEnt /\ NoCData /\ NoValidation /\ NoStart
    /\ \E s \in EscapeInputs :
           esc_state = Some([given |-> s, pc |-> "given", text |-> <<>>, out |-> <<>>])

NextEscape == Escape \/ UnescapeEscaped \/ Unescape

SpecEscape == InitEscape /\ [][NextEscape]_vars

\* is_xml11_char: the Char production of XML 1.1.
is_xml11_char(ch) ==
    \/ ch \in 1..55295
    \/ ch \in 57344..65533
    \/ ch \in 65536..1114111

(***************************************************************************)
(* The claims about escape and unescape                                    *)
(***************************************************************************)
\* C26: unescape(escape(s)) = s, for every string s, with or without "&"
\* and "<" in it.
C26_UnescapeOfEscape == esc_pc = "round" => esc_out = Unescaped(esc_in)

\* A string of "<" and "&" is escaped and unescaped.
C26_Witness ==
    /\ esc_pc = "round"
    /\ esc_in = Str(<<"<", "&">>)
    /\ esc_text = Str(<<"&", "l", "t", ";", "&", "a", "m", "p", ";">>)
    /\ esc_out = Unescaped(esc_in)

\* The string is one character reference, "&#", digits and ";".
IsCharRef(s) ==
    /\ Len(s) >= 3
    /\ s[1] = Code("&") /\ s[2] = Code("#") /\ s[Len(s)] = Code(";")
    /\ \A i \in 3..(Len(s) - 1) : s[i] \notin {Code("&"), Code(";")}

RefIsHex(s) == Len(s) > 3 /\ s[3] = Code("x")

RefDigits(s) == SubSeq(s, IF RefIsHex(s) THEN 4 ELSE 3, Len(s) - 1)

RefMost(s) == IF RefIsHex(s) THEN 6 ELSE 7

IsDigit(b, hex) ==
    \/ b \in Code("0")..Code("9")
    \/ hex /\ (b \in Code("a")..Code("f") \/ b \in Code("A")..Code("F"))

\* The number the digits stand for.
RECURSIVE Value(_, _)
Value(digits, base) ==
    IF digits = <<>> THEN 0
    ELSE LET b == Last(digits)
             d == IF b <= Code("9") THEN b - Code("0")
                  ELSE IF b <= Code("F") THEN b - Code("A") + 10
                  ELSE b - Code("a") + 10
         IN  Value(Front(digits), base) * base + d

RefValue(s) == Value(RefDigits(s), IF RefIsHex(s) THEN 16 ELSE 10)

\* The reference has digits only, and no more than unescape takes.
RefInBounds(s) ==
    /\ IsCharRef(s)
    /\ Len(RefDigits(s)) <= RefMost(s)
    /\ \A i \in 1..Len(RefDigits(s)) : IsDigit(RefDigits(s)[i], RefIsHex(s))

\* C27: a character reference of more than six hexadecimal or more than
\* seven decimal digits is an error, and so is one of the value 0; a
\* reference within these lengths has a value that the 32 bits of code
\* hold, and if the value is a character, unescape gives this character.
C27_ReferenceBounds ==
    esc_pc = "unescaped" /\ IsCharRef(esc_in) =>
        /\ Len(RefDigits(esc_in)) > RefMost(esc_in) =>
               /\ ~esc_out.ok
               /\ esc_out.e = IF RefIsHex(esc_in) THEN "TooLongHexadecimal"
                               ELSE "TooLongDecimal"
        /\ RefInBounds(esc_in) =>
               LET code   == RefValue(esc_in)
                   parsed == IF RefIsHex(esc_in)
                             THEN parse_hexadecimal(RefDigits(esc_in))
                             ELSE parse_decimal(RefDigits(esc_in))
               IN  /\ parsed = CodeOk(code)
                   /\ code <= (IF RefIsHex(esc_in) THEN 16777215 ELSE 9999999)
                   /\ code = 0 => esc_out = EscapeError("EntityWithNull")
                   /\ code # 0 /\ code \notin 55296..57343 /\ code <= 1114111 =>
                          esc_out = Unescaped(<<code>>)

\* The reference to the last character, of six hexadecimal digits.
C27_Witness ==
    /\ esc_pc = "unescaped"
    /\ esc_in = CharRef(Str(<<"x", "1", "0", "F", "F", "F", "F">>))
    /\ esc_out = Unescaped(<<1114111>>)

\* C28: unescape gives an error for a character reference whose code
\* point is no Char of XML, as U+FFFE and U+FFFF are none.
C28_NonCharRejected ==
    esc_pc = "unescaped" /\ RefInBounds(esc_in) /\ ~is_xml11_char(RefValue(esc_in)) =>
        ~esc_out.ok

(***************************************************************************)
(* BytesCData::escaped and CDataIterator (events/mod.rs)                   *)
(*                                                                         *)
(* The bytes are "]", ">" and "a", any other byte.                         *)
(***************************************************************************)
MaxCData == 6

CDataStrings == UNION {[1..n -> {"]", ">", "a"}] : n \in 0..MaxCData}

\* memchr::memchr_iter(b'>', haystack): the indices of ">", counted from 0.
memchr_iter(haystack) == {gt \in 0..(Len(haystack) - 1) : haystack[gt + 1] = ">"}

\* haystack[..gt].ends_with(b"]]")
ends_with_brackets(haystack, gt) ==
    gt >= 2 /\ haystack[gt - 1] = "]" /\ haystack[gt] = "]"

\* A variant of split_at that splits one byte later.
split_after(haystack, mid) ==
    [slice |-> SubSeq(haystack, 1, mid + 1),
     rest  |-> SubSeq(haystack, mid + 2, Len(haystack))]

\* <[u8]>::split_at: the first mid bytes, and the others.
split_at(haystack, mid) ==
    [slice |-> SubSeq(haystack, 1, mid), rest |-> SubSeq(haystack, mid + 1, Len(haystack))]

\* CDataIterator::next of an iterator that is not finished: the section
\* it yields and the iterator after it.
cdata_next(up) ==
    LET found == {gt \in memchr_iter(up) : ends_with_brackets(up, gt)}
    IN  IF found # {}
        THEN LET gt  == CHOOSE a \in found : \A b \in found : a <= b
                 cut == split_at(up, gt)
             IN  [unprocessed |-> cut.rest, finished |-> FALSE, item |-> cut.slice]
        ELSE [unprocessed |-> up, finished |-> TRUE, item |-> up]

\* CDataIterator::next; when finished it yields nothing more.
CDataNext ==
    /\ ~finished
    /\ \E n \in {cdata_next(unprocessed)} :
           cdata_state' = Some([given |-> cdata_in,
                           unprocessed |-> n.unprocessed,
                           finished |-> n.finished,
                           sections |-> Append(sections, n.item)])
    /\ UNCHANGED but_ivars

\* BytesCData::escaped(content)
InitCData ==
    /\ Idle /\ NoNs /\ NoSkip /\ NoEnt /\ NoEscape /\ NoValidation /\ NoStart
    /\ \E s \in CDataStrings :
           cdata_state = Some([given |-> s, unprocessed |-> s, finished |-> FALSE,
                          sections |-> <<>>])

NextCData == CDataNext

SpecCData == InitCData /\ [][NextCData]_vars

\* The bytes "]]>" are in the section.
HasCDataEnd(section) ==
    \E i \in 1..(Len(section) - 2) :
        section[i] = "]" /\ section[i + 1] = "]" /\ section[i + 2] = ">"

RECURSIVE Concat(_)
Concat(ss) == IF ss = <<>> THEN <<>> ELSE Head(ss) \o Concat(Tail(ss))

\* C29: no section that BytesCData::escaped(s) yields has "]]>" in it;
\* the sections yielded and what is left to process make up s, so that
\* all the sections together are s; a "]]>" of s has its "]]" at the end
\* of one section and its ">" at the start of the next; the empty s
\* yields one empty section.
C29_SectionsSplitCDataEnd ==
    /\ \A i \in 1..Len(sections) : ~HasCDataEnd(sections[i])
    /\ Concat(sections) \o (IF finished THEN <<>> ELSE unprocessed) = cdata_in
    /\ \A i \in 1..(Len(sections) - 1) :
           /\ Len(sections[i]) >= 2
           /\ SubSeq(sections[i], Len(sections[i]) - 1, Len(sections[i])) = <<"]", "]">>
           /\ sections[i + 1] # <<>> /\ sections[i + 1][1] = ">"
    /\ finished =>
           /\ sections # <<>>
           /\ Len(sections) = 1 + Cardinality({i \in 1..(Len(cdata_in) - 2) :
                                     SubSeq(cdata_in, i, i + 2) = <<"]", "]", ">">>})
    /\ finished /\ cdata_in = <<>> => sections = << <<>> >>

\* "]]>]]>" is yielded as "]]", ">]]" and ">".
C29_Witness ==
    /\ finished
    /\ cdata_in = <<"]", "]", ">", "]", "]", ">">>
    /\ sections = << <<"]", "]">>, <<">", "]", "]">>, <<">">> >>

(***************************************************************************)
(* C30: a text run with a CData event in it is flushed as Text (a          *)
(* Node::Text child or FeedResult::Text), never as Space, also when all    *)
(* of its content is XML whitespace.                                       *)
(***************************************************************************)
C30_Step ==
    (/\ Fed
     /\ FedEvent.k \in TagKinds \cup {"Eof"}
     /\ text # None
     /\ \E i \in 1..Len(RunEvents(fed)) : RunEvents(fed)[i].k = "CData") =>
        FlushedKind = "Text"

C30_CDataRunIsText == [][C30_Step]_vars

\* <tag><![CDATA[ ]]></tag>: the element has one child, a Node::Text of
\* whitespace.
C30_Witness ==
    /\ Len(fed) = 3
    /\ fed[1].k = "Start" /\ fed[2].k = "CData" /\ fed[3].k = "End"
    /\ fed[2].s # <<>> /\ is_xml_spaces(fed[2].s)
    /\ res.k = "Element"
    /\ Len(res.el.children) = 1
    /\ res.el.children[1].k = "Text"
    /\ is_xml_spaces(res.el.children[1].s)

(***************************************************************************)
(* C31: Element::from_str skips an XML declaration, comments, processing   *)
(* instructions and whitespace before and after the root element, and      *)
(* never counts them as roots.  Of a document made of an optional          *)
(* declaration, such tokens, one element and such tokens again, from_str   *)
(* returns only at the end of the document, and what it returns is the     *)
(* element: the same as for the root element alone, which is the document  *)
(* of this form with nothing around the element.                           *)
(***************************************************************************)
\* The reader reads the tokens d without an error.
RECURSIVE ReadsClean(_, _, _)
ReadsClean(d, i, stack) ==
    \/ i > Len(d)
    \/ LET r == read_event(SubSeq(d, 1, i - 1), stack, d[i])
       IN  ~r.err /\ ReadsClean(d, i + 1, r.opened)

\* A comment, a processing instruction or whitespace.
MiscToken(t) == t.k \in {"Comment", "PI"} \/ (t.k = "Text" /\ is_xml_spaces(t.s))

\* The position of the last token of the element that starts at i; 0 when
\* the element is not closed in d.
RootEnd(d, i) == IF d[i].k = "Empty" THEN i ELSE MatchEnd(d, i + 1, 1)

\* d has one element from i on, misc before it after an optional declaration,
\* and misc after it, up to the end of the document if d has it.
MiscAround(d, i) ==
    /\ i \in 1..Len(d) /\ d[i].k \in {"Start", "Empty"}
    /\ \A j \in 1..(i - 1) : MiscToken(d[j]) \/ (j = 1 /\ d[j].k = "Decl")
    /\ RootEnd(d, i) > 0
    /\ \A j \in (RootEnd(d, i) + 1)..Len(d) :
           MiscToken(d[j]) \/ (j = Len(d) /\ d[j].k = "Eof")
    /\ ReadsClean(d, 1, <<>>)

\* The element from i on, as its tokens say.
RootAlone(d, i) ==
    Element(d[i].n, IF d[i].k = "Empty" THEN <<>>
                    ELSE RefNodes(SubSeq(d, i + 1, RootEnd(d, i) - 1)))

C31_MiscAroundRootSkipped ==
    \A i \in 1..Len(doc) :
        (pc = "done" /\ MiscAround(doc, i)) =>
            /\ Last(doc).k = "Eof"
            /\ out = Returned("Ok", NodeElement(RootAlone(doc, i)))

C31_Witness ==
    /\ pc = "done"
    /\ doc = <<EvDecl, EvComment, Ev("Empty", "a", <<>>), Ev("Text", "", <<"s">>), EvEof>>
    /\ MiscAround(doc, 3)
    /\ out = Returned("Ok", NodeElement(Element("a", <<>>)))

(***************************************************************************)
(* CommentValidationIter and TextValidationIter (reader/validation)        *)
(*                                                                         *)
(* A string is its characters' code points.  The characters are "-", "&",  *)
(* "a" for any other character of XML, and U+0000, which is_xml11_char     *)
(* refuses.                                                                *)
(***************************************************************************)
\* The number of characters of a validated string.
MaxValidated == 4

ValidatedChars == {Code("-"), Code("&"), Code("a"), 0}
ValidatedStrings == UNION {[1..n -> ValidatedChars] : n \in 0..MaxValidated}

\* ValidationError
ValidationError(e, ch) == [e |-> e, ch |-> ch]
DoubleHyphenInComment == ValidationError("DoubleHyphenInComment", 0)
UnclosedReference == ValidationError("UnclosedReference", 0)
RestrictedChar(ch) == ValidationError("RestrictedChar", ch)

\* The iterator after a call of next and the item the call returned.
Validated(iter, dash, item) == [iter |-> iter, dash |-> dash, item |-> item]

\* A variant of after_pair that takes the second dash of a pair for the
\* first dash of the next one.
after_pair_kept == TRUE

\* CommentValidationIter::next: `self.dash = false` of a reported pair.
after_pair == FALSE

\* CommentValidationIter::next
RECURSIVE comment_next(_, _)
comment_next(iter, dash) ==
    IF iter = <<>> THEN Validated(iter, dash, None)
    ELSE LET ch == Head(iter)
             is_dash == ch = Code("-")
         IN  IF dash /\ is_dash
             THEN Validated(Tail(iter), after_pair, Some(DoubleHyphenInComment))
             ELSE IF ~is_xml11_char(ch)
                  THEN Validated(Tail(iter), is_dash, Some(RestrictedChar(ch)))
                  ELSE comment_next(Tail(iter), is_dash)

\* valid_chars
RECURSIVE valid_chars(_)
valid_chars(iter) ==
    IF iter = <<>> THEN Validated(iter, FALSE, None)
    ELSE IF ~is_xml11_char(Head(iter))
         THEN Validated(Tail(iter), FALSE, Some(RestrictedChar(Head(iter))))
         ELSE valid_chars(Tail(iter))

\* TextValidationIter::next
text_next(iter) ==
    IF iter = <<>> THEN valid_chars(iter)
    ELSE IF Head(iter) = Code("&")
         THEN Validated(Tail(iter), FALSE, Some(UnclosedReference))
    ELSE IF ~is_xml11_char(Head(iter))
         THEN Validated(Tail(iter), FALSE, Some(RestrictedChar(Head(iter))))
    ELSE valid_chars(Tail(iter))

\* The string the iterator was made from.
val_in == val_state[1].given
\* The characters the iterator has not read yet.
val_iter == val_state[1].iter
\* CommentValidationIter.dash
val_dash == val_state[1].dash
\* history: what next returned, call by call, and how many characters the
\* iterator had read then.
reports == val_state[1].reports

\* One call of next that returned as v says.
ValidationNext(v) ==
    /\ val_state' = Some([given |-> val_in, iter |-> v.iter, dash |-> v.dash,
                          reports |-> Append(reports,
                                             [item |-> v.item,
                                              at |-> Len(val_in) - Len(v.iter)])])
    /\ UNCHANGED but_wvars

\* The iterator is read until it returns None.
CanValidate == reports # <<>> => Last(reports).item # None

CommentNext ==
    /\ CanValidate
    /\ \E v \in {comment_next(val_iter, val_dash)} : ValidationNext(v)

TextNext ==
    /\ CanValidate
    /\ \E v \in {text_next(val_iter)} : ValidationNext(v)

\* CommentValidationIter::from(s) and TextValidationIter::from(s)
InitValidation ==
    /\ Idle /\ NoNs /\ NoSkip /\ NoEnt /\ NoEscape /\ NoCData /\ NoStart
    /\ \E s \in ValidatedStrings :
           val_state = Some([given |-> s, iter |-> s, dash |-> FALSE, reports |-> <<>>])

NextComment == CommentNext

SpecComment == InitValidation /\ [][NextComment]_vars

NextText == TextNext

SpecText == InitValidation /\ [][NextText]_vars

\* The number of dashes that end at position i of s with nothing but dashes
\* between them.
RECURSIVE DashRun(_, _)
DashRun(s, i) ==
    IF i = 0 \/ s[i] # Code("-") THEN 0 ELSE 1 + DashRun(s, i - 1)

\* The positions of s where a pair of dashes ends that overlaps no other:
\* the second, the fourth, ... dash of a run.
PairEnds(s) == {i \in 1..Len(s) : DashRun(s, i) > 0 /\ DashRun(s, i) % 2 = 0}

\* The calls so far that returned the item.
Reported(item) == {i \in 1..Len(reports) : reports[i].item = Some(item)}

\* C32: CommentValidationIter reports DoubleHyphenInComment once for each
\* pair of adjacent dashes that overlaps no other pair: each report is made
\* at the second, fourth, ... dash of a run, no two reports at one place,
\* and when the iterator is exhausted every such place was reported, so
\* that a run of n dashes gives n / 2 reports (rounded down) and a dash
\* alone gives none.
C32_OnePerPairOfDashes ==
    /\ \A i \in Reported(DoubleHyphenInComment) : reports[i].at \in PairEnds(val_in)
    /\ \A i, j \in Reported(DoubleHyphenInComment) : reports[i].at = reports[j].at => i = j
    /\ (reports # <<>> /\ Last(reports).item = None) =>
           Cardinality(Reported(DoubleHyphenInComment)) = Cardinality(PairEnds(val_in))

C32_Witness ==
    /\ val_in = <<Code("-"), Code("-"), Code("-"), Code("a")>>
    /\ Len(reports) = 2
    /\ reports[1] = [item |-> Some(DoubleHyphenInComment), at |-> 2]
    /\ reports[2] = [item |-> None, at |-> 4]

\* C33: TextValidationIter reports UnclosedReference exactly when the first
\* character of the text is "&": the first call reports it for a text that
\* starts with "&", and no call reports it for a character at a later
\* position.
C33_AmpersandOnlyFirst ==
    /\ \A i \in Reported(UnclosedReference) : reports[i].at = 1
    /\ (reports # <<>> /\ val_in # <<>> /\ val_in[1] = Code("&")) =>
           reports[1].item = Some(UnclosedReference)

(***************************************************************************)
(* BytesStart: its name and its attributes (events/mod.rs)                 *)
(***************************************************************************)
\* The number of changes made to one BytesStart.
MaxEdits == 5

TagNames == {<<"t">>, <<"g", "g">>}
\* Attribute
Attr(key, value) == [key |-> key, value |-> value]
Attrs == {Attr(<<"x">>, <<"a">>), Attr(<<"y", "y">>, <<>>)}

\* BytesStart
BytesStart(buf, name_len) == [buf |-> buf, name_len |-> name_len]

\* BytesStart::new(name)
bytes_start_new(name) == BytesStart(name, Len(name))

\* BytesStart::name
name(b) == SubSeq(b.buf, 1, b.name_len)

\* BytesStart::attributes_raw
attributes_raw(b) == SubSeq(b.buf, b.name_len + 1, Len(b.buf))

\* A variant of set_name that leaves name_len as it was.
set_name_len_kept(b, new_name) ==
    BytesStart(new_name \o SubSeq(b.buf, b.name_len + 1, Len(b.buf)), b.name_len)

\* BytesStart::set_name
set_name(b, new_name) ==
    BytesStart(new_name \o SubSeq(b.buf, b.name_len + 1, Len(b.buf)), Len(new_name))

\* BytesStart::push_attr
push_attr(b, attr) ==
    [b EXCEPT !.buf = @ \o attr.key \o <<"=", "quot">> \o attr.value \o <<"quot">>]

\* BytesStart::push_attribute
push_attribute(b, attr) == push_attr([b EXCEPT !.buf = Append(@, " ")], attr)

\* BytesStart::clear_attributes
clear_attributes(b) == [b EXCEPT !.buf = SubSeq(@, 1, b.name_len)]

\* The BytesStart.
start == bytes_start[1].b
\* history: the name it was made of or set_name gave it last.
last_name == bytes_start[1].last_name
\* history: the attributes pushed since it was made or cleared last.
pushed == bytes_start[1].pushed
\* history: the number of changes made to it.
edits == bytes_start[1].edits

\* One more change can be made.
CanEdit == edits < MaxEdits

Edited(b, n, attrs) ==
    /\ bytes_start' = Some([b |-> b, last_name |-> n, pushed |-> attrs,
                            edits |-> edits + 1])
    /\ UNCHANGED but_tvars

SetName ==
    /\ CanEdit
    /\ \E n \in TagNames : Edited(set_name(start, n), n, pushed)

PushAttribute ==
    /\ CanEdit
    /\ \E attr \in Attrs :
           Edited(push_attribute(start, attr), last_name, Append(pushed, attr))

ClearAttributes ==
    /\ CanEdit
    /\ Edited(clear_attributes(start), last_name, <<>>)

InitStart ==
    /\ Idle /\ NoNs /\ NoSkip /\ NoEnt /\ NoEscape /\ NoCData /\ NoValidation
    /\ \E n \in TagNames :
           bytes_start = Some([b |-> bytes_start_new(n), last_name |-> n,
                               pushed |-> <<>>, edits |-> 0])

NextStart == SetName \/ PushAttribute \/ ClearAttributes

SpecStart == InitStart /\ [][NextStart]_vars

\* The attributes, each as ` key="value"`, one after the other.
RECURSIVE Rendered(_)
Rendered(attrs) ==
    IF attrs = <<>> THEN <<>>
    ELSE <<" ">> \o attrs[1].key \o <<"=", "quot">> \o attrs[1].value \o <<"quot">>
             \o Rendered(Tail(attrs))

\* C34: after any sequence of set_name, push_attribute and clear_attributes
\* on a BytesStart made from a name, name() is the name set last and
\* attributes_raw() is the rest of the buffer: the attributes pushed since
\* the last clear_attributes, each as ` key="value"`, in the order pushed.
C34_NameAndAttributesSplitBuffer ==
    /\ name(start) = last_name
    /\ attributes_raw(start) = Rendered(pushed)
    /\ name(start) \o attributes_raw(start) = start.buf

C34_Witness ==
    /\ edits = 4
    /\ last_name = <<"g", "g">>
    /\ pushed = <<Attr(<<"x">>, <<"a">>)>>
    /\ start.buf = <<"g", "g", " ", "x", "=", "quot", "a", "quot">>
    /\ start.name_len = 2

(***************************************************************************)
(* C35: after any sequence of calls of DomBuilder::feed the number of open *)
(* elements is the number of Start events consumed less the number of End  *)
(* events consumed.  An event is consumed by a call that returns and does  *)
(* not hand the event back inside FeedResult::Text or FeedResult::Space.   *)
(* Stated call by call: a new builder has no open element, a call that     *)
(* consumes a Start opens one, a call that consumes an End closes one, and *)
(* every other call leaves the number as it is.                            *)
(***************************************************************************)
\* The call that ends the step has consumed its event.
Consumed == res'.k \in {"NeedData", "NoData", "Element"}

C35_Step ==
    Fed =>
        Len(parents') = Len(parents)
                        + (IF Consumed /\ FedEvent.k = "Start" THEN 1 ELSE 0)
                        - (IF Consumed /\ FedEvent.k = "End" THEN 1 ELSE 0)

C35_OpenIsStartsLessEnds == (fed = <<>> => parents = <<>>) /\ [][C35_Step]_vars

\* Text, a Start handed back with it, the Start once more, a Start, an End:
\* two Starts and one End consumed, one element open.
C35_Witness ==
    /\ Len(fed) = 5
    /\ fed[1].k = "Text" /\ fed[2].k = "Start" /\ fed[3] = fed[2]
    /\ fed[4].k = "Start" /\ fed[5].k = "End"
    /\ res.k = "NeedData"
    /\ Len(parents) = 1

(***************************************************************************)
(* Element::from_str and Node::from_str, either of them called             *)
(***************************************************************************)
InitFromStr == InitElement \/ InitNode

NextFromStr == NextElement \/ NextNode

SpecFromStr == InitFromStr /\ [][NextFromStr]_vars

(***************************************************************************)
(* C36: during Element::from_str and Node::from_str, whenever an End event *)
(* is given to DomBuilder::feed an element is open, so that the call does  *)
(* not reach `unreachable!`, whatever the input, ill-formed inputs         *)
(* included.                                                               *)
(***************************************************************************)
C36_Step ==
    (Fed /\ FedEvent.k = "End") => parents # <<>> /\ res'.k # "Panic"

C36_EndHasOpenElement == [][C36_Step]_vars

\* An End was fed and closed the root; and the reader has refused an End
\* that closes nothing, which was never fed.
C36_Witness ==
    /\ pc = "done"
    /\ Len(doc) = 3 /\ doc[1].k = "Start" /\ doc[2].k = "End" /\ doc[3].k = "End"
    /\ Len(fed) = 2 /\ fed[2].k = "End"
    /\ res.k = "Element"
    /\ out.k = "Parse"

(***************************************************************************)
(* C37: a Start, End or Empty event that arrives while text is pending and *)
(* no element is open is handed back: feed returns Text or Space with the  *)
(* pending run and that same event, the open elements are as before, the   *)
(* pending text is cleared and spaces_only is true again.  The event was   *)
(* not applied, so that feeding it once more applies it: a Start opens the *)
(* element, an Empty returns it, and neither they nor an End are handed    *)
(* back again.                                                             *)
(***************************************************************************)
\* The call hands back a tag that found text pending and no element open.
C37_HandedBack ==
    (Fed /\ FedEvent.k \in TagKinds /\ text # None /\ parents = <<>>) =>
        /\ res'.k = (IF spaces_only THEN "Space" ELSE "Text")
        /\ res'.s = text[1]
        /\ res'.next = FedEvent
        /\ parents' = parents
        /\ text' = None
        /\ spaces_only' = TRUE

\* The event handed back is fed once more.
C37_FedAgain ==
    (Fed /\ res.k \in {"Text", "Space"} /\ res.next.k \in TagKinds /\ FedEvent = res.next) =>
        /\ res'.k \notin {"Text", "Space"}
        /\ text' = None
        /\ FedEvent.k = "Start" =>
               res'.k = "NeedData" /\ parents' = <<ElementFrom(FedEvent.n)>>
        /\ FedEvent.k = "Empty" =>
               res'.k = "Element" /\ res'.el = ElementFrom(FedEvent.n) /\ parents' = <<>>

C37_Step == C37_HandedBack /\ C37_FedAgain

KeyInTurn ==
    /\ answer \in {"", "Value"}
    /\ Len(keys) = Len(values)
    /\ KeysThenValues

\* C38: when the visitor calls next_key_seed and next_value_seed strictly
\* in turn, pending_value is Unknown when next_key_seed is entered (its
\* debug assertion holds) and after each next_value_seed, also one that
\* read a sequence through FieldSeqAccess or ValueSeqAccess.
C38_PendingUnknownInTurn == KeyInTurn => map.pending_value = Unknown

\* A sequence of two items was read for the first key, and the value of a
\* second key after it: next_key_seed is in turn.
C38_Witness ==
    /\ KeyInTurn
    /\ Len(values) = 2
    /\ values[1].how = "seq"
    /\ Len(values[1].items) = 2
    /\ map.pending_value = Unknown

(***************************************************************************)
(* Sequences of a fixed length.  deserialize_tuple hands the visitor of a  *)
(* tuple to deserialize_seq; that visitor calls next_element_seed once for *)
(* each of its len items and no more, so it may stop while the sequence   *)
(* access still holds an item back.                                        *)
(***************************************************************************)
MaxTuple == 2

\* Visitor::visit_seq of a tuple of len items over a FieldSeqAccess.
RECURSIVE field_visit_tuple(_, _, _)
field_visit_tuple(st, items, len) ==
    IF len = 0 \/ st.item = None THEN [st |-> st, items |-> items]
    ELSE field_visit_tuple(field_scan(st.item[1], st.children, st.skipped),
                           Append(items, st.item[1]), len - 1)

\* Visitor::visit_seq of a tuple of len items over a ValueSeqAccess.
RECURSIVE value_visit_tuple(_, _, _, _)
value_visit_tuple(m, st, items, len) ==
    IF len = 0 \/ st.item = None THEN [st |-> st, items |-> items]
    ELSE value_visit_tuple(m, value_scan(m, st.children, st.skipped),
                           Append(items, st.item[1]), len - 1)

\* The answer of the visitor of a tuple: its value, or the error
\* invalid_length when the sequence ended before the tuple was full.
tuple_read(items, len) == IF Len(items) = len THEN "Value" ELSE "InvalidLength"

\* FieldDeserializer::deserialize_tuple: deserialize_seq with the visitor
\* of a tuple.  The sequence access is dropped with the item it holds.
field_deserialize_tuple(m, elem, len) ==
    LET seq == field_visit_tuple(SeqState(Some(elem), m.children, m.skipped),
                                 <<>>, len)
    IN  ValueRead([m EXCEPT !.children = seq.st.children \o seq.st.skipped,
                            !.skipped = <<>>],
                  tuple_read(seq.items, len), seq.items)

\* ValueDeserializer::deserialize_tuple
value_deserialize_tuple(m, node, len) ==
    LET seq == value_visit_tuple(m, SeqState(Some(node), m.children, m.skipped),
                                 <<>>, len)
    IN  ValueRead([m EXCEPT !.children = seq.st.children \o seq.st.skipped,
                            !.skipped = <<>>],
                  tuple_read(seq.items, len), seq.items)

\* MapAccess::next_value_seed with a seed that asks for a tuple of len
\* items.  The arms Attribute and Text do not look at what the seed asks.
next_value_seed_tuple(m, len) ==
    LET pending == m.pending_value
        taken == [m EXCEPT !.pending_value = Unknown]
    IN  CASE pending.k = "Value" -> value_deserialize_tuple(taken, pending.node, len)
          [] pending.k = "Field" -> field_deserialize_tuple(taken, pending.node, len)
          [] OTHER -> next_value_seed(m, "one")

NextValueSeedTuple ==
    /\ CanAccess
    /\ map.pending_value.k \in {"Value", "Field"}
    /\ \E len \in 1..MaxTuple : \E r \in {next_value_seed_tuple(map, len)} :
           /\ map' = r.m
           /\ values' = IF r.k = "Value"
                         THEN Append(values, Val(LastKey, "tuple", r.items))
                         ELSE values
           /\ answer' = r.k
    /\ UNCHANGED <<keys, nodes, bvars, fvars, avars, evars, rvars>>

NextTuple == NextMap \/ NextValueSeedTuple

SpecTuple == InitMap /\ [][NextTuple]_vars

\* The nodes but the whitespace.
RECURSIVE NotSpace(_)
NotSpace(cs) ==
    IF cs = <<>> THEN <<>>
    ELSE IF cs[1].k = "Space" THEN NotSpace(Tail(cs))
    ELSE <<cs[1]>> \o NotSpace(Tail(cs))

\* The children without the items delivered, each item taken out where it
\* stands first.
RECURSIVE Undelivered(_, _)
Undelivered(cs, items) ==
    IF cs = <<>> THEN <<>>
    ELSE IF items # <<>> /\ cs[1] = items[1]
    THEN Undelivered(Tail(cs), Tail(items))
    ELSE <<cs[1]>> \o Undelivered(Tail(cs), items)

\* A step that read the value of a field or of $value as a sequence.
SequenceRead ==
    /\ map.pending_value.k \in {"Value", "Field"}
    /\ values' # values
    /\ Last(values').how \in {"seq", "tuple"}

\* C39: after a field was read as a sequence, by deserialize_seq or by
\* deserialize_tuple, the children that were not delivered as its items,
\* but the whitespace, are the children the map access still has, once
\* each and in their order, so that the later calls of next_key_seed
\* deliver them; also when the visitor stopped before the sequence ended.
\* The first item is the pending node, which next_key_seed has popped.
C39_Step ==
    SequenceRead =>
        /\ map'.skipped = <<>>
        /\ NotSpace(map'.children) =
               NotSpace(Undelivered(map.children, Tail(Last(values').items)))

C39_UndeliveredChildrenStay == [][C39_Step]_vars

=============================================================================
